---- MODULE Spec2Model ----
\* Developer Consciousness memory banks (bank_manager.ts): the bank store, its
\* line-delimited JSON files and the operations on them.
EXTENDS Integers, Sequences, FiniteSets, TLC

\* ------------------------------------------------------------------ bounds
\* Lines a bank file may hold before the model stops adding to it.
MaxLines == 2
\* Largest reading of the wall clock (new Date()).
MaxClock == 2
\* Longest list handed to one createEntities / createRelations / addObservations call.
MaxBatch == 2
\* Observations one entity may hold before the model stops adding to it.
MaxObservations == 2

\* ------------------------------------------------------------------ strings
\* A JavaScript string is a sequence of one-character strings.
\* String.prototype.toLowerCase on one letter: the capital letters and what they become.
LowerOf ==
  LET upper == <<"A", "B", "C", "D", "E", "F", "G", "H", "I", "J", "K", "L", "M",
                 "N", "O", "P", "Q", "R", "S", "T", "U", "V", "W", "X", "Y", "Z">>
      lower == <<"a", "b", "c", "d", "e", "f", "g", "h", "i", "j", "k", "l", "m",
                 "n", "o", "p", "q", "r", "s", "t", "u", "v", "w", "x", "y", "z">>
  IN [c \in {upper[i] : i \in 1..Len(upper)} |->
        lower[CHOOSE i \in 1..Len(upper) : upper[i] = c]]
Lower(c) == IF c \in DOMAIN LowerOf THEN LowerOf[c] ELSE c

\* String.prototype.toLowerCase
ToLowerCase(s) == [i \in 1..Len(s) |-> Lower(s[i])]

\* String.prototype.includes
Includes(s, q) ==
  \E i \in 0..(Len(s) - Len(q)) : \A j \in 1..Len(q) : s[i + j] = q[j]

\* A field that an object does not carry (JavaScript undefined).
Undefined == "undefined"
UndefinedStr == <<"undefined">>
UndefinedList == <<UndefinedStr>>
UndefinedTime == -1

\* ------------------------------------------------------------------ records
\* An Entity as a caller hands it in (interfaces: name, entityType, observations);
\* `type` and `memoryBank` are the two keys saveBankGraph merges under the record's own.
EntityObj(n, t, obs) ==
  [type |-> Undefined, memoryBank |-> Undefined, createdAt |-> UndefinedTime,
   name |-> n, entityType |-> t, observations |-> obs,
   from |-> UndefinedStr, to |-> UndefinedStr, relationType |-> UndefinedStr,
   strength |-> 0]

\* A Relation as a caller hands it in (from, to, relationType, optional strength).
RelationObj(f, t, rt, st) ==
  [type |-> Undefined, memoryBank |-> Undefined, createdAt |-> UndefinedTime,
   name |-> UndefinedStr, entityType |-> UndefinedStr, observations |-> UndefinedList,
   from |-> f, to |-> t, relationType |-> rt,
   strength |-> st]

\* The text of a file line that JSON.parse rejects.
MalformedLine == [json |-> FALSE, obj |-> EntityObj(UndefinedStr, UndefinedStr, UndefinedList)]

\* JSON.stringify({type: tag, memoryBank: bank.name, ...e}): the spread comes last, so
\* the record's own type and memoryBank, when it carries them, replace the two tags.
Stringify(tag, bankName, e) ==
  [json |-> TRUE,
   obj |-> [e EXCEPT !.type = IF e.type = Undefined THEN tag ELSE e.type,
                     !.memoryBank = IF e.memoryBank = Undefined THEN bankName
                                    ELSE e.memoryBank]]

\* Array.prototype.filter, keeping the order.
RECURSIVE SelectLines(_, _)
SelectLines(lines, tag) ==
  IF lines = <<>> THEN <<>>
  ELSE LET rest == SelectLines(Tail(lines), tag)
       IN IF Head(lines).json /\ Head(lines).obj.type = tag
          THEN <<Head(lines).obj>> \o rest
          ELSE rest

\* The reduce of loadBankGraph over the lines of a file that was read: a line that does
\* not parse is skipped, a parsed item goes to entities or relations by its type.
ParseLines(lines) ==
  [entities |-> SelectLines(lines, "entity"),
   relations |-> SelectLines(lines, "relation")]

EmptyGraph == [entities |-> <<>>, relations |-> <<>>]

\* Mutant: the relations are written ahead of the entities.
GraphLinesRelationsFirst(bankName, graph) ==
  [i \in 1..Len(graph.relations) |-> Stringify("relation", bankName, graph.relations[i])]
  \o [i \in 1..Len(graph.entities) |-> Stringify("entity", bankName, graph.entities[i])]

\* The lines saveBankGraph writes: every entity, then every relation.
GraphLines(bankName, graph) ==
  [i \in 1..Len(graph.entities) |-> Stringify("entity", bankName, graph.entities[i])]
  \o [i \in 1..Len(graph.relations) |-> Stringify("relation", bankName, graph.relations[i])]

\* ------------------------------------------------------------------ inputs
\* The banks of the configuration handed to the constructor, and a name it lacks.
BankNames ==
  {"development_patterns", "breakthrough_moments", "collaboration_insights",
   "project_evolution", "community_wisdom"}
UnknownBank == "unknown_bank"
\* The bank names the calls of the model are made with.
CallBanks == {"development_patterns", UnknownBank}

NameA == <<"A", "w">>
NameT == <<"t">>
NameAbsent == <<"z">>
TypeT == <<"T">>
TypeJ == <<"j">>
ObsJWT == <<"J", "W", "T">>
ObsJw == <<"j", "w">>
ObsStrings == {ObsJWT, ObsJw}

\* The entities callers offer: two names, and for one name two records that differ in
\* type and observations.
EntityInputs ==
  { EntityObj(NameA, TypeT, <<ObsJWT>>),
    EntityObj(NameA, TypeJ, <<>>),
    EntityObj(NameT, TypeJ, <<ObsJw, ObsJWT>>) }

\* The relations callers offer: two share the (from, to, relationType) triple and
\* differ in strength only.
RelationInputs ==
  { RelationObj(NameA, NameT, <<"u">>, 1),
    RelationObj(NameA, NameT, <<"u">>, 2),
    RelationObj(NameT, NameA, <<"u">>, 1) }

Queries == { <<>>, <<"j", "W">>, <<"t">>, <<"z">> }

\* Every list of at most MaxBatch elements of S.
Batches(S) == UNION { [1..n -> S] : n \in 0..MaxBatch }

\* ------------------------------------------------------------------ state
VARIABLES
  files,   \* bank name -> the bank's file: its status on disk and its lines
  clock,   \* the wall clock read by new Date()
  last,    \* the call that completed last: what it was and what it gave back
  procs    \* the calls in flight when calls overlap: each one's position and locals

vars == <<files, clock, last, procs>>

MissingFile == [status |-> "missing", lines |-> <<>>]
\* A path fs.readFile rejects with an error other than ENOENT.
UnreadableFile(code) == [status |-> code, lines |-> <<>>]
PresentFile(lines) == [status |-> "present", lines |-> lines]

InitialFiles ==
  { MissingFile, UnreadableFile("EACCES"), UnreadableFile("EISDIR"),
    PresentFile(<<MalformedLine>>) }

NoError == [kind |-> "none", bank |-> Undefined, entity |-> UndefinedStr]
\* new Error(`Consciousness bank '${bankName}' not found`)
BankNotFound(bankName) == [kind |-> "BankNotFound", bank |-> bankName, entity |-> UndefinedStr]
\* new Error(`Entity '${entityName}' not found in bank '${bankName}'`)
EntityNotFound(entityName, bankName) ==
  [kind |-> "EntityNotFound", bank |-> bankName, entity |-> entityName]
\* The error fs.readFile rejected with, as it is.
ReadError(code) == [kind |-> code, bank |-> Undefined, entity |-> UndefinedStr]

\* What a completed call leaves behind: the operation, its bank argument, the names of
\* the entities it was offered, and the value it resolved with or the error it threw.
Returned(op, bankName, offered, items, strings, results) ==
  [op |-> op, bank |-> bankName, offered |-> offered, status |-> "ok", error |-> NoError,
   items |-> items, strings |-> strings, results |-> results]
Threw(op, bankName, error) ==
  [op |-> op, bank |-> bankName, offered |-> <<>>, status |-> "error", error |-> error,
   items |-> <<>>, strings |-> <<>>, results |-> <<>>]

NamesOf(entities) == [i \in 1..Len(entities) |-> entities[i].name]

TotalLines(fs) ==
  LET RECURSIVE Sum(_)
      Sum(S) == IF S = {} THEN 0
                ELSE LET b == CHOOSE x \in S : TRUE
                     IN Len(fs[b].lines) + Sum(S \ {b})
  IN Sum(BankNames)

\* ------------------------------------------------------------------ load, save
\* Mutant: every rejected read is taken for a bank that does not exist yet.
LoadBankGraphAnyErrorEmpty(file) ==
  IF file.status = "present"
  THEN [threw |-> FALSE, error |-> NoError, graph |-> ParseLines(file.lines)]
  ELSE [threw |-> FALSE, error |-> NoError, graph |-> EmptyGraph]

\* Mutant: a line that does not parse makes the whole load throw.
LoadBankGraphStrict(file) ==
  CASE file.status = "missing" -> [threw |-> FALSE, error |-> NoError, graph |-> EmptyGraph]
    [] file.status = "present" /\ \A i \in 1..Len(file.lines) : file.lines[i].json ->
         [threw |-> FALSE, error |-> NoError, graph |-> ParseLines(file.lines)]
    [] file.status = "present" ->
         [threw |-> TRUE, error |-> ReadError("SyntaxError"), graph |-> EmptyGraph]
    [] OTHER -> [threw |-> TRUE, error |-> ReadError(file.status), graph |-> EmptyGraph]

\* loadBankGraph: ENOENT is the empty graph, any other rejection is rethrown.
LoadBankGraph(file) ==
  CASE file.status = "missing" -> [threw |-> FALSE, error |-> NoError, graph |-> EmptyGraph]
    [] file.status = "present" ->
         [threw |-> FALSE, error |-> NoError, graph |-> ParseLines(file.lines)]
    [] OTHER -> [threw |-> TRUE, error |-> ReadError(file.status), graph |-> EmptyGraph]

\* Mutant: the write appends to the file instead of replacing it.
AppendFile(file, lines) == PresentFile(file.lines \o lines)

\* fs.writeFile(bank.filePath, lines.join("\n")): the whole file is replaced.
WriteFile(file, lines) == PresentFile(lines)

\* saveBankGraph: the lines of the graph, mkdir, then writeFile.
SaveBankGraph(file, bankName, graph) == WriteFile(file, GraphLines(bankName, graph))

\* ------------------------------------------------------------------ createEntities
\* Mutant: no entity is taken for stored already.
KeepAllEntities(existing, entities) == entities

RECURSIVE FilterNewEntities(_, _)
FilterNewEntities(existing, entities) ==
  IF entities = <<>> THEN <<>>
  ELSE LET e == Head(entities)
           rest == FilterNewEntities(existing, Tail(entities))
       IN IF \E i \in 1..Len(existing) : existing[i].name = e.name
          THEN rest ELSE <<e>> \o rest

\* Mutant: no filter, every offered entity is stamped and stored.
NewEntitiesUnfiltered(graph, entities, timestamp, bankName) ==
  [i \in 1..Len(entities) |->
     [entities[i] EXCEPT !.createdAt = timestamp, !.memoryBank = bankName]]

\* entities.filter(not in graph.entities by name).map(stamp createdAt, memoryBank)
NewEntities(graph, entities, timestamp, bankName) ==
  LET kept == FilterNewEntities(graph.entities, entities)
  IN [i \in 1..Len(kept) |->
        [kept[i] EXCEPT !.createdAt = timestamp, !.memoryBank = bankName]]

CreateEntitiesInBank(bankName, entities) ==
  /\ clock' = clock
  /\ procs' = procs
  /\ IF bankName \notin BankNames
     THEN /\ last' = Threw("createEntities", bankName, BankNotFound(bankName))
          /\ files' = files
     ELSE LET loaded == LoadBankGraph(files[bankName]) IN
          IF loaded.threw
          THEN /\ last' = Threw("createEntities", bankName, loaded.error)
               /\ files' = files
          ELSE LET newEntities == NewEntities(loaded.graph, entities, clock, bankName)
                   graph == [loaded.graph EXCEPT !.entities = @ \o newEntities]
               IN /\ files' = [files EXCEPT ![bankName] = SaveBankGraph(files[bankName], bankName, graph)]
                  /\ TotalLines(files') <= MaxLines
                  /\ last' = Returned("createEntities", bankName, NamesOf(entities), newEntities, <<>>, <<>>)

\* ------------------------------------------------------------------ createRelations
RECURSIVE FilterNewRelations(_, _)
FilterNewRelations(existing, relations) ==
  IF relations = <<>> THEN <<>>
  ELSE LET r == Head(relations)
           rest == FilterNewRelations(existing, Tail(relations))
       IN IF \E i \in 1..Len(existing) :
               /\ existing[i].from = r.from
               /\ existing[i].to = r.to
               /\ existing[i].relationType = r.relationType
          THEN rest ELSE <<r>> \o rest

\* relations.filter(triple not in graph.relations).map(stamp createdAt, memoryBank)
NewRelations(graph, relations, timestamp, bankName) ==
  LET kept == FilterNewRelations(graph.relations, relations)
  IN [i \in 1..Len(kept) |->
        [kept[i] EXCEPT !.createdAt = timestamp, !.memoryBank = bankName]]

CreateRelationsInBank(bankName, relations) ==
  /\ clock' = clock
  /\ procs' = procs
  /\ IF bankName \notin BankNames
     THEN /\ last' = Threw("createRelations", bankName, BankNotFound(bankName))
          /\ files' = files
     ELSE LET loaded == LoadBankGraph(files[bankName]) IN
          IF loaded.threw
          THEN /\ last' = Threw("createRelations", bankName, loaded.error)
               /\ files' = files
          ELSE LET newRelations == NewRelations(loaded.graph, relations, clock, bankName)
                   graph == [loaded.graph EXCEPT !.relations = @ \o newRelations]
               IN /\ files' = [files EXCEPT ![bankName] = SaveBankGraph(files[bankName], bankName, graph)]
                  /\ TotalLines(files') <= MaxLines
                  /\ last' = Returned("createRelations", bankName, <<>>, newRelations, <<>>, <<>>)

\* ------------------------------------------------------------------ addObservations
\* Mutant: find with a predicate that holds of every entity gives the first one.
FindFirstEntity(entities, entityName) == IF entities = <<>> THEN 0 ELSE 1

\* graph.entities.find(e => e.name === entityName): the first position, 0 when none.
FindEntity(entities, entityName) ==
  IF \E i \in 1..Len(entities) : entities[i].name = entityName
  THEN CHOOSE i \in 1..Len(entities) :
         /\ entities[i].name = entityName
         /\ \A j \in 1..(i - 1) : entities[j].name # entityName
  ELSE 0

\* Mutant: the entity's list is assigned the new strings instead of extended by them.
ReplaceObservations(present, added) == added

\* entity.observations.push(...newObservations)
PushObservations(present, added) == present \o added

\* observations.filter(obs => !entity.observations.includes(obs))
RECURSIVE NewObservations(_, _)
NewObservations(present, observations) ==
  IF observations = <<>> THEN <<>>
  ELSE LET o == Head(observations)
           rest == NewObservations(present, Tail(observations))
       IN IF \E i \in 1..Len(present) : present[i] = o
          THEN rest ELSE <<o>> \o rest

AddObservationsToBank(bankName, entityName, observations) ==
  /\ clock' = clock
  /\ procs' = procs
  /\ IF bankName \notin BankNames
     THEN /\ last' = Threw("addObservations", bankName, BankNotFound(bankName))
          /\ files' = files
     ELSE LET loaded == LoadBankGraph(files[bankName]) IN
          IF loaded.threw
          THEN /\ last' = Threw("addObservations", bankName, loaded.error)
               /\ files' = files
          ELSE LET at == FindEntity(loaded.graph.entities, entityName) IN
               IF at = 0
               THEN /\ last' = Threw("addObservations", bankName,
                                     EntityNotFound(entityName, bankName))
                    /\ files' = files
               ELSE LET newObservations ==
                          NewObservations(loaded.graph.entities[at].observations, observations)
                        graph == [loaded.graph EXCEPT
                                    !.entities[at].observations =
                                       PushObservations(@, newObservations)]
                    IN /\ Len(graph.entities[at].observations) <= MaxObservations
                       /\ files' = [files EXCEPT ![bankName] = SaveBankGraph(files[bankName], bankName, graph)]
                       /\ last' = Returned("addObservations", bankName, <<entityName>>,
                                           <<>>, newObservations, <<>>)

\* ------------------------------------------------------------------ searchBank
NameLabel == <<"N", "a", "m", "e", ":", " ">>
TypeLabel == <<"T", "y", "p", "e", ":", " ">>
ObservationLabel == <<"O", "b", "s", "e", "r", "v", "a", "t", "i", "o", "n", ":", " ">>
Separator == <<" ", "|", " ">>

\* Array.prototype.join
RECURSIVE Join(_, _)
Join(parts, sep) ==
  IF parts = <<>> THEN <<>>
  ELSE IF Len(parts) = 1 THEN parts[1]
  ELSE parts[1] \o sep \o Join(Tail(parts), sep)

\* Mutant: the observation is compared as written, not lowercased.
RECURSIVE MatchedObservationsAsWritten(_, _)
MatchedObservationsAsWritten(observations, queryLower) ==
  IF observations = <<>> THEN <<>>
  ELSE LET rest == MatchedObservationsAsWritten(Tail(observations), queryLower)
       IN IF Includes(Head(observations), queryLower)
          THEN <<Head(observations)>> \o rest ELSE rest

\* The observations of the entity that contain the lowercased query, in order.
RECURSIVE MatchedObservations(_, _)
MatchedObservations(observations, queryLower) ==
  IF observations = <<>> THEN <<>>
  ELSE LET rest == MatchedObservations(Tail(observations), queryLower)
       IN IF Includes(ToLowerCase(Head(observations)), queryLower)
          THEN <<Head(observations)>> \o rest ELSE rest

NameScore == 10
TypeScore == 5
ObservationScore == 3

\* The body of the loop over graph.entities: the entity's score and matched content.
ScoreEntity(entity, queryLower) ==
  LET nameHit == Includes(ToLowerCase(entity.name), queryLower)
      typeHit == Includes(ToLowerCase(entity.entityType), queryLower)
      obsHits == MatchedObservations(entity.observations, queryLower)
  IN [relevanceScore |-> (IF nameHit THEN NameScore ELSE 0)
                         + (IF typeHit THEN TypeScore ELSE 0)
                         + ObservationScore * Len(obsHits),
      matchedContent |-> (IF nameHit THEN <<NameLabel \o entity.name>> ELSE <<>>)
                         \o (IF typeHit THEN <<TypeLabel \o entity.entityType>> ELSE <<>>)
                         \o [i \in 1..Len(obsHits) |-> ObservationLabel \o obsHits[i]]]

RECURSIVE CollectResults(_, _, _)
CollectResults(entities, bankName, queryLower) ==
  IF entities = <<>> THEN <<>>
  ELSE LET entity == Head(entities)
           scored == ScoreEntity(entity, queryLower)
           rest == CollectResults(Tail(entities), bankName, queryLower)
       IN IF scored.relevanceScore > 0
          THEN << [source |-> "memory_bank", bankName |-> bankName,
                   entityName |-> entity.name,
                   content |-> Join(scored.matchedContent, Separator),
                   relevanceScore |-> scored.relevanceScore,
                   projectId |-> Undefined, sessionId |-> Undefined,
                   timestamp |-> entity.createdAt] >> \o rest
          ELSE rest

\* Mutant: the results are returned in the order the entities were stored.
KeepInsertionOrder(results) == results

\* results.sort((a, b) => b.relevanceScore - a.relevanceScore): stable, descending.
RECURSIVE SortByRelevance(_)
SortByRelevance(results) ==
  IF results = <<>> THEN <<>>
  ELSE LET x == results[Len(results)]
           sorted == SortByRelevance(SubSeq(results, 1, Len(results) - 1))
           k == Cardinality({i \in 1..Len(sorted) : sorted[i].relevanceScore >= x.relevanceScore})
       IN SubSeq(sorted, 1, k) \o <<x>> \o SubSeq(sorted, k + 1, Len(sorted))

SearchResults(graph, bankName, query) ==
  SortByRelevance(CollectResults(graph.entities, bankName, ToLowerCase(query)))

SearchBank(bankName, query) ==
  /\ clock' = clock
  /\ procs' = procs
  /\ files' = files
  /\ IF bankName \notin BankNames
     THEN last' = Threw("searchBank", bankName, BankNotFound(bankName))
     ELSE LET loaded == LoadBankGraph(files[bankName]) IN
          IF loaded.threw
          THEN last' = Threw("searchBank", bankName, loaded.error)
          ELSE last' = Returned("searchBank", bankName, <<>>, <<>>, <<>>,
                                SearchResults(loaded.graph, bankName, query))

Tick ==
  /\ clock < MaxClock
  /\ clock' = clock + 1
  /\ UNCHANGED <<files, last, procs>>

Procs == {"p1", "p2"}
IdleProc ==
  [pc |-> "idle", bank |-> Undefined, input |-> <<>>, loaded |-> EmptyGraph,
   graph |-> EmptyGraph, result |-> <<>>, error |-> NoError]

Init ==
  /\ files \in [BankNames -> InitialFiles]
  /\ \A b \in BankNames \ CallBanks : files[b] = MissingFile
  /\ clock = 1
  /\ procs = [p \in Procs |-> IdleProc]
  /\ last = Returned("none", Undefined, <<>>, <<>>, <<>>, <<>>)

Next ==
  \/ \E b \in CallBanks, es \in Batches(EntityInputs) : CreateEntitiesInBank(b, es)
  \/ \E b \in CallBanks, rs \in Batches(RelationInputs) : CreateRelationsInBank(b, rs)
  \/ \E b \in CallBanks, n \in {NameA, NameT, NameAbsent}, os \in Batches(ObsStrings) :
       AddObservationsToBank(b, n, os)
  \/ \E b \in CallBanks, q \in Queries : SearchBank(b, q)
  \/ Tick

Spec == Init /\ [][Next]_vars

\* ------------------------------------------------------------------ overlapping calls
\* createEntitiesInBank as the event loop runs it: the call up to its first await
\* (fs.readFile issued), the continuation when the read resolves (filter, stamp, push,
\* the lines of saveBankGraph, mkdir and fs.writeFile issued), and the write itself.
CreateEntitiesCalled(p, bankName, entities) ==
  /\ procs[p].pc = "idle"
  /\ procs' = [procs EXCEPT ![p] =
       IF bankName \notin BankNames
       THEN [IdleProc EXCEPT !.pc = "done", !.bank = bankName, !.input = entities,
                             !.error = BankNotFound(bankName)]
       ELSE [IdleProc EXCEPT !.pc = "loading", !.bank = bankName, !.input = entities]]
  /\ UNCHANGED <<files, clock, last>>

CreateEntitiesLoaded(p) ==
  /\ procs[p].pc = "loading"
  /\ LET bankName == procs[p].bank
         loaded == LoadBankGraph(files[bankName])
     IN IF loaded.threw
        THEN procs' = [procs EXCEPT ![p].pc = "done", ![p].error = loaded.error]
        ELSE LET newEntities == NewEntities(loaded.graph, procs[p].input, clock, bankName)
                 graph == [loaded.graph EXCEPT !.entities = @ \o newEntities]
             IN /\ Len(GraphLines(bankName, graph)) <= MaxLines
                /\ procs' = [procs EXCEPT ![p].pc = "saving", ![p].loaded = loaded.graph,
                                          ![p].graph = graph, ![p].result = newEntities]
  /\ UNCHANGED <<files, clock, last>>

CreateEntitiesSaved(p) ==
  /\ procs[p].pc = "saving"
  /\ LET bankName == procs[p].bank
     IN files' = [files EXCEPT ![bankName] =
                    SaveBankGraph(files[bankName], bankName, procs[p].graph)]
  /\ procs' = [procs EXCEPT ![p].pc = "done"]
  /\ UNCHANGED <<clock, last>>

NextRace ==
  \/ \E p \in Procs, b \in CallBanks, es \in Batches(EntityInputs) :
       CreateEntitiesCalled(p, b, es)
  \/ \E p \in Procs : CreateEntitiesLoaded(p)
  \/ \E p \in Procs : CreateEntitiesSaved(p)

SpecRace == Init /\ [][NextRace]_vars

\* ------------------------------------------------------------------ save, then load
\* Records a caller can hand to the store when nothing restricts their fields: some
\* carry a `type` key of their own.
RoundTripEntities ==
  { EntityObj(NameA, TypeT, <<ObsJWT>>),
    EntityObj(NameT, TypeJ, <<>>),
    [EntityObj(NameA, TypeT, <<>>) EXCEPT !.type = "entity"],
    [EntityObj(NameT, TypeT, <<>>) EXCEPT !.type = "relation"],
    [EntityObj(NameT, TypeJ, <<ObsJw>>) EXCEPT !.type = "note"] }
RoundTripRelations ==
  { RelationObj(NameA, NameT, <<"u">>, 1),
    [RelationObj(NameT, NameA, <<"u">>, 2) EXCEPT !.type = "entity"] }
RoundTripGraphs ==
  { [entities |-> es, relations |-> rs] :
      es \in Batches(RoundTripEntities), rs \in Batches(RoundTripRelations) }

\* saveBankGraph(bank, graph) on its own.
SaveGraph(p, bankName, graph) ==
  /\ procs[p].pc = "idle"
  /\ IF files[bankName].status \in {"missing", "present"}
     THEN /\ files' = [files EXCEPT ![bankName] =
                         SaveBankGraph(files[bankName], bankName, graph)]
          /\ procs' = [procs EXCEPT ![p] =
                         [IdleProc EXCEPT !.pc = "saved", !.bank = bankName, !.graph = graph]]
     ELSE /\ files' = files
          /\ procs' = [procs EXCEPT ![p] =
                         [IdleProc EXCEPT !.pc = "done", !.bank = bankName, !.graph = graph,
                                          !.error = ReadError(files[bankName].status)]]
  /\ UNCHANGED <<clock, last>>

\* loadBankGraph(bank) on its own, after the save.
LoadGraph(p) ==
  /\ procs[p].pc = "saved"
  /\ LET loaded == LoadBankGraph(files[procs[p].bank])
     IN procs' = [procs EXCEPT ![p].pc = "reloaded", ![p].loaded = loaded.graph,
                               ![p].error = loaded.error]
  /\ UNCHANGED <<files, clock, last>>

NextRoundTrip ==
  \/ \E g \in RoundTripGraphs : SaveGraph("p1", "development_patterns", g)
  \/ LoadGraph("p1")

SpecRoundTrip == Init /\ [][NextRoundTrip]_vars

\* ------------------------------------------------------------------ properties
\* What a load of the bank's file gives, for the statements below.
StoredEntities(fs, b) == LoadBankGraph(fs[b]).graph.entities
StoredRelations(fs, b) == LoadBankGraph(fs[b]).graph.relations
CountName(fs, b, n) ==
  Cardinality({i \in 1..Len(StoredEntities(fs, b)) : StoredEntities(fs, b)[i].name = n})
Stamped(e, timestamp, b) == [e EXCEPT !.createdAt = timestamp, !.memoryBank = b]

\* C1: after any sequence of createEntities calls, no two entities stored in one bank
\* have the same name.
C1_UniqueNamesPerBank ==
  \A b \in BankNames :
    LET es == StoredEntities(files, b)
    IN \A i, j \in 1..Len(es) : i # j => es[i].name # es[j].name

\* C3: createEntities(bank, [e]) for a name the bank lacks returns [e] stamped and
\* stores it once; the same call made again right after returns the empty list and
\* leaves the bank with exactly that one entity of the name.
C3_TwiceStoresOnce ==
  [][(last'.op = "createEntities" /\ last'.status = "ok" /\ Len(last'.offered) = 1) =>
       \A e \in EntityInputs :
         LET b == last'.bank IN
         (e.name = last'.offered[1] /\ CreateEntitiesInBank(b, <<e>>)) =>
           /\ CountName(files, b, e.name) = 0 =>
                /\ last'.items = <<Stamped(e, clock, b)>>
                /\ CountName(files', b, e.name) = 1
           /\ ( /\ last.op = "createEntities" /\ last.bank = b /\ last.status = "ok"
                /\ last.offered = <<e.name>> /\ Len(last.items) = 1 ) =>
                /\ last'.items = <<>>
                /\ CountName(files', b, e.name) = 1
                /\ StoredEntities(files', b) = StoredEntities(files, b)]_vars

\* C3 witness: a createEntities call offering one entity named NameA returned the empty
\* list, and the bank holds exactly one entity of that name, stored by an earlier call.
C3_Witness ==
  /\ last.op = "createEntities" /\ last.status = "ok"
  /\ last.offered = <<NameA>> /\ last.items = <<>>
  /\ last.bank \in BankNames
  /\ CountName(files, last.bank, NameA) = 1

\* C4: after any sequence of createRelations calls, a bank holds at most one relation
\* per (from, to, relationType) triple.
C4_OneRelationPerTriple ==
  \A b \in BankNames :
    LET rs == StoredRelations(files, b)
    IN \A i, j \in 1..Len(rs) :
         i # j => ~( /\ rs[i].from = rs[j].from
                     /\ rs[i].to = rs[j].to
                     /\ rs[i].relationType = rs[j].relationType )

\* C6: with no concurrent writer, after createEntities(bank, [e]) stored e under a name
\* the bank lacked, a following searchBank(bank, q) with q a case-insensitive substring
\* of one of e's observations returns a result for e whose relevanceScore is >= 3.
C6_SearchFindsStoredEntity ==
  [][( /\ last'.op = "searchBank"
       /\ last.op = "createEntities" /\ last.status = "ok"
       /\ Len(last.offered) = 1 /\ Len(last.items) = 1
       /\ last'.bank = last.bank ) =>
       LET e == last.items[1] IN
       \A q \in Queries :
         ( /\ SearchBank(last.bank, q)
           /\ \E i \in 1..Len(e.observations) :
                Includes(ToLowerCase(e.observations[i]), ToLowerCase(q)) ) =>
           /\ last'.status = "ok"
           /\ \E k \in 1..Len(last'.results) :
                /\ last'.results[k].entityName = e.name
                /\ last'.results[k].relevanceScore >= ObservationScore]_vars

\* C6 witness: a search returned the entity NameA on the strength of one observation
\* alone (score 3), for a query written in another letter case than the observation.
C6_Witness ==
  /\ last.op = "searchBank" /\ last.status = "ok"
  /\ \E k \in 1..Len(last.results) :
       /\ last.results[k].entityName = NameA
       /\ last.results[k].relevanceScore = 3
       /\ last.results[k].content = ObservationLabel \o ObsJWT

\* C7: an operation whose load finds no file sees the empty graph and does not fail on
\* the load; a read that fails otherwise makes the operation throw that very error
\* and leaves the files alone.
C7_MissingIsEmptyOtherErrorsPropagate ==
  [][(last'.bank \in BankNames /\ last' # last) =>
       LET b == last'.bank
           file == files[b]
       IN /\ file.status = "missing" =>
               /\ last'.error.kind \in {"none", "EntityNotFound"}
               /\ last'.op = "searchBank" => last' = Returned("searchBank", b, <<>>, <<>>, <<>>, <<>>)
               /\ last'.op = "createEntities" =>
                    /\ last'.status = "ok"
                    /\ Len(last'.items) = Len(last'.offered)
                    /\ StoredEntities(files', b) =
                         [i \in 1..Len(last'.items) |-> [last'.items[i] EXCEPT !.type = "entity"]]
               /\ last'.op = "createRelations" =>
                    /\ last'.status = "ok"
                    /\ StoredRelations(files', b) =
                         [i \in 1..Len(last'.items) |-> [last'.items[i] EXCEPT !.type = "relation"]]
               /\ last'.op = "addObservations" => last'.error.kind = "EntityNotFound"
          /\ file.status \notin {"missing", "present"} =>
               /\ last' = Threw(last'.op, b, ReadError(file.status))
               /\ files' = files]_vars

\* C7 witness: a search of a bank whose file does not exist returned no results and
\* no error.
C7_Witness ==
  /\ last.op = "searchBank" /\ last.status = "ok" /\ last.results = <<>>
  /\ last.bank \in BankNames
  /\ files[last.bank].status = "missing"

\* C8: a call naming a bank that is not configured throws the not-found error carrying
\* that name, addObservations for a name the bank does not hold throws the entity
\* not-found error, and in both cases every bank file is as it was.
C8_NotFoundLeavesFilesAlone ==
  [][/\ (last'.op # "none" /\ last'.bank \notin BankNames) =>
          /\ last' = Threw(last'.op, last'.bank, BankNotFound(last'.bank))
          /\ files' = files
     /\ ( /\ last'.op = "addObservations" /\ last'.bank \in BankNames
          /\ files[last'.bank].status \in {"missing", "present"} ) =>
          LET b == last'.bank IN
          \/ /\ last'.status = "ok"
             /\ CountName(files, b, last'.offered[1]) >= 1
          \/ /\ last' = Threw("addObservations", b, EntityNotFound(last'.error.entity, b))
             /\ CountName(files, b, last'.error.entity) = 0
             /\ files' = files]_vars

\* C8 witness: addObservations for a name the bank lacks threw not-found while the
\* bank holds another entity.
C8_Witness ==
  /\ last.op = "addObservations" /\ last.status = "error"
  /\ last.error = EntityNotFound(NameAbsent, "development_patterns")
  /\ CountName(files, "development_patterns", NameA) = 1

NoRepeat(seq) == \A i, j \in 1..Len(seq) : i # j => seq[i] # seq[j]
IsPrefix(a, b) == Len(a) <= Len(b) /\ SubSeq(b, 1, Len(a)) = a

\* C9: the observation list of a stored entity, created without a repeated string,
\* never comes to hold a string twice through addObservations.
C9_NoRepeatedObservation ==
  \A b \in BankNames :
    \A i \in 1..Len(StoredEntities(files, b)) :
      NoRepeat(StoredEntities(files, b)[i].observations)

\* C10: no call changes the name, createdAt or entityType of an entity a bank holds,
\* nor removes or moves one of its observations; entities are only added after it.
C10_StoredEntityKept ==
  [][\A b \in BankNames :
       (files'[b] # files[b]) =>
         LET old == StoredEntities(files, b)
             new == StoredEntities(files', b)
         IN /\ Len(new) >= Len(old)
            /\ \A i \in 1..Len(old) :
                 /\ new[i].name = old[i].name
                 /\ new[i].createdAt = old[i].createdAt
                 /\ new[i].entityType = old[i].entityType
                 /\ IsPrefix(old[i].observations, new[i].observations)]_vars

\* C10 witness: a later createEntities offered the stored name NameA and got nothing
\* stored, and the entity still carries the type, the observations and the createdAt
\* of its creation at an earlier clock reading.
C10_Witness ==
  /\ last.op = "createEntities" /\ last.status = "ok"
  /\ last.offered = <<NameA>> /\ last.items = <<>>
  /\ clock = 2
  /\ StoredEntities(files, "development_patterns") =
       <<[Stamped(EntityObj(NameA, TypeT, <<ObsJWT>>), 1, "development_patterns")
            EXCEPT !.type = "entity"]>>

\* C2: two createEntities calls on one bank that both loaded the same graph, each
\* storing one entity of a name the other did not offer, both return their entity, and
\* once both have completed the file holds the graph of the later writer alone: one of
\* the two entities is gone and neither call was told.
C2_LostUpdate ==
  \A p, q \in Procs :
    ( /\ p # q
      /\ procs[p].pc = "done" /\ procs[q].pc = "done"
      /\ procs[p].error = NoError /\ procs[q].error = NoError
      /\ procs[p].bank = procs[q].bank
      /\ procs[p].loaded = procs[q].loaded
      /\ Len(procs[p].result) = 1 /\ Len(procs[q].result) = 1
      /\ procs[p].result[1].name # procs[q].result[1].name ) =>
      LET b == procs[p].bank
          kept == NamesOf(procs[p].loaded.entities)
          P == procs[p].result[1].name
          Q == procs[q].result[1].name
      IN /\ NamesOf(StoredEntities(files, b)) \in {kept \o <<P>>, kept \o <<Q>>}
         /\ CountName(files, b, P) + CountName(files, b, Q) = 1

\* C2 witness: both calls are done, one returned the entity NameA and the other the
\* entity NameT as stored, and the file holds NameT only.
C2_Witness ==
  /\ procs["p1"].pc = "done" /\ procs["p2"].pc = "done"
  /\ procs["p1"].bank = "development_patterns" /\ procs["p2"].bank = "development_patterns"
  /\ NamesOf(procs["p1"].result) = <<NameA>>
  /\ NamesOf(procs["p2"].result) = <<NameT>>
  /\ NamesOf(StoredEntities(files, "development_patterns")) = <<NameT>>

\* The records of two lists agree one by one, the tags saveBankGraph adds set aside.
SameRecords(a, b) ==
  /\ Len(a) = Len(b)
  /\ \A i \in 1..Len(a) :
       [a[i] EXCEPT !.type = Undefined, !.memoryBank = Undefined]
         = [b[i] EXCEPT !.type = Undefined, !.memoryBank = Undefined]

\* C5: saveGraph followed by loadGraph gives back the same entities and the same
\* relations, each list in its order, whatever fields the records carry.
C5_RoundTrip ==
  \A p \in Procs :
    procs[p].pc = "reloaded" =>
      /\ SameRecords(procs[p].loaded.entities, procs[p].graph.entities)
      /\ SameRecords(procs[p].loaded.relations, procs[p].graph.relations)

\* ------------------------------------------------------------------ unified search
\* this.banks.keys(): the banks in the order of the configuration table.
BankOrder ==
  <<"development_patterns", "breakthrough_moments", "collaboration_insights",
    "project_evolution", "community_wisdom">>

\* searchAllBanks: searchBank for each bank in turn (the first load that throws ends
\* the call), the results concatenated and sorted by relevanceScore.
RECURSIVE SearchBanksFrom(_, _, _)
SearchBanksFrom(fs, query, k) ==
  IF k > Len(BankOrder) THEN [threw |-> FALSE, error |-> NoError, results |-> <<>>]
  ELSE LET loaded == LoadBankGraph(fs[BankOrder[k]]) IN
       IF loaded.threw THEN [threw |-> TRUE, error |-> loaded.error, results |-> <<>>]
       ELSE LET rest == SearchBanksFrom(fs, query, k + 1) IN
            IF rest.threw THEN rest
            ELSE [rest EXCEPT !.results =
                    SearchResults(loaded.graph, BankOrder[k], query) \o @]

SearchAllBanks(fs, query) ==
  LET all == SearchBanksFrom(fs, query, 1)
  IN [all EXCEPT !.results = SortByRelevance(@)]

\* Times are counted in hours; a day of 1000 * 60 * 60 * 24 ms is TicksPerDay of them.
TicksPerDay == 24
\* A Date and the ISO string Date.prototype.toISOString writes of it are both held as
\* the instant they denote, as createdAt is; InvalidTime is a string that new Date
\* cannot parse (getTime gives NaN).
InvalidTime == -2

\* A hit of the transcript search capability (SessionSearchResult).
SessionHit(sessionId, projectId, relevance, matchedContent, timestamp) ==
  [session |-> [id |-> sessionId, timestamp |-> timestamp],
   project |-> [id |-> projectId],
   relevance |-> relevance, matchedContent |-> matchedContent]

\* searchSessions: the hits in the unified result shape.
SearchSessions(hits) ==
  [i \in 1..Len(hits) |->
     [source |-> "session", bankName |-> Undefined, entityName |-> UndefinedStr,
      content |-> Join(hits[i].matchedContent, Separator),
      relevanceScore |-> hits[i].relevance,
      projectId |-> hits[i].project.id, sessionId |-> hits[i].session.id,
      timestamp |-> hits[i].session.timestamp]]

\* Scores are multiplied by factors counted in twentieths: 1.0, 1.1, 1.15, 1.2, 1.3.
FactorUnit == 20
SessionBoost == 22
MemoryBoost == 23
HighRelevance == 8
RecentDays == 30
RecentBoost == 24
OlderDays == 90
OlderBoost == 22
PhraseBoost == 26

\* Mutant: the memory-bank boost starts at the threshold itself.
MemoryFactorFromThreshold(result) ==
  IF result.source = "memory_bank" /\ result.relevanceScore >= HighRelevance
  THEN MemoryBoost ELSE FactorUnit

SessionFactor(result) == IF result.source = "session" THEN SessionBoost ELSE FactorUnit

MemoryFactor(result) ==
  IF result.source = "memory_bank" /\ result.relevanceScore > HighRelevance
  THEN MemoryBoost ELSE FactorUnit

\* Mutant: the recency limits are exclusive.
RecencyFactorExclusive(result, now) ==
  IF result.timestamp = UndefinedTime \/ result.timestamp = InvalidTime THEN FactorUnit
  ELSE LET age == now - result.timestamp IN
       IF age < RecentDays * TicksPerDay THEN RecentBoost
       ELSE IF age < OlderDays * TicksPerDay THEN OlderBoost
       ELSE FactorUnit

\* daysSinceCreation <= 30, <= 90: compared in hours; NaN compares false both times.
RecencyFactor(result, now) ==
  IF result.timestamp = UndefinedTime THEN FactorUnit
  ELSE IF result.timestamp = InvalidTime THEN FactorUnit
  ELSE LET age == now - result.timestamp IN
       IF age <= RecentDays * TicksPerDay THEN RecentBoost
       ELSE IF age <= OlderDays * TicksPerDay THEN OlderBoost
       ELSE FactorUnit

PhraseFactor(result, query) ==
  IF Includes(ToLowerCase(result.content), ToLowerCase(query))
  THEN PhraseBoost ELSE FactorUnit

\* calculateFinalScore, in units of 1 / FactorUnit^4.
CalculateFinalScore(result, query, now) ==
  result.relevanceScore * SessionFactor(result) * MemoryFactor(result)
    * RecencyFactor(result, now) * PhraseFactor(result, query)

\* .sort((a, b) => b.finalScore - a.finalScore): stable, descending.
RECURSIVE SortByFinalScore(_)
SortByFinalScore(scored) ==
  IF scored = <<>> THEN <<>>
  ELSE LET x == scored[Len(scored)]
           sorted == SortByFinalScore(SubSeq(scored, 1, Len(scored) - 1))
           k == Cardinality({i \in 1..Len(sorted) : sorted[i].finalScore >= x.finalScore})
       IN SubSeq(sorted, 1, k) \o <<x>> \o SubSeq(sorted, k + 1, Len(sorted))

\* .map(result => ({...result, finalScore}))
WithFinalScore(results, query, now) ==
  [i \in 1..Len(results) |->
     results[i] @@ [finalScore |-> CalculateFinalScore(results[i], query, now)]]

\* Mutant: the ranking key stays on the returned elements.
KeepFinalScore(scored) == scored

\* .map(({ finalScore, ...result }) => result)
StripFinalScore(scored) ==
  [i \in 1..Len(scored) |->
     [f \in DOMAIN scored[i] \ {"finalScore"} |-> scored[i][f]]]

RankUnifiedResults(results, query, now) ==
  StripFinalScore(SortByFinalScore(WithFinalScore(results, query, now)))

\* ------------------------------------------------------------------ transcript search
\* The most hits the transcript search capability returns for one query.
MaxHits == 11

\* Two hits: one 29 days old, one 91 days old.
Hits(now) ==
  << SessionHit("s1", "p1", 9, <<ObsJWT>>, now - 29 * TicksPerDay),
     SessionHit("s2", "p1", 8, <<NameT, ObsJw>>, now - 91 * TicksPerDay) >>
\* The capability the caller supplies (sessionSearchFunction), one of four: it finds
\* nothing; it returns the same two hits whatever the query; it returns those of the
\* two hits that contain the query; it returns MaxHits hits, each from a session of
\* its own and quoting the query.
TranscriptSearches == {"silent", "constant", "matching", "many"}
TranscriptSearch(search, query, now) ==
  CASE search = "silent" -> <<>>
    [] search = "constant" -> Hits(now)
    [] search = "matching" ->
         SelectSeq(Hits(now), LAMBDA h :
           \E i \in 1..Len(h.matchedContent) :
             Includes(ToLowerCase(h.matchedContent[i]), ToLowerCase(query)))
    [] search = "many" ->
         [i \in 1..MaxHits |->
            SessionHit(ToString(i), "p1", i, <<query>>, now - 30 * TicksPerDay)]

\* ------------------------------------------------------------------ natural-language query
StopWords ==
  { <<"h", "o", "w">>,
    <<"w", "h", "a", "t">>,
    <<"w", "h", "e", "n">>,
    <<"w", "h", "e", "r", "e">>,
    <<"w", "h", "y">>,
    <<"d", "o">>,
    <<"i">>,
    <<"t", "o">>,
    <<"t", "h", "e">>,
    <<"a">>,
    <<"a", "n">>,
    <<"a", "n", "d">>,
    <<"o", "r">>,
    <<"b", "u", "t">>,
    <<"i", "n">>,
    <<"o", "n">>,
    <<"a", "t">>,
    <<"f", "o", "r">>,
    <<"w", "i", "t", "h">>,
    <<"b", "y">> }

\* /\s/
Spaces == {" ", "\t", "\n"}

\* String.prototype.split(/[seps]+/): every run of separators separates two tokens, so
\* a string that starts or ends with a separator has an empty first or last token.
RECURSIVE SplitFrom(_, _, _, _, _)
SplitFrom(s, seps, i, word, inRun) ==
  IF i > Len(s) THEN <<word>>
  ELSE IF s[i] \in seps
       THEN IF inRun THEN SplitFrom(s, seps, i + 1, word, TRUE)
            ELSE <<word>> \o SplitFrom(s, seps, i + 1, <<>>, TRUE)
       ELSE SplitFrom(s, seps, i + 1, Append(word, s[i]), FALSE)
Split(s) == SplitFrom(s, Spaces, 1, <<>>, FALSE)

MinWordLength == 2
MaxKeyTerms == 5
TopPerTerm == 3
MaxDirectMatches == 10
MaxRelatedInsights == 5
ManyRelated == 3

\* Array.prototype.slice(0, n)
Slice(list, n) == SubSeq(list, 1, IF Len(list) < n THEN Len(list) ELSE n)

RECURSIVE FilterWords(_)
FilterWords(words) ==
  IF words = <<>> THEN <<>>
  ELSE LET rest == FilterWords(Tail(words))
       IN IF Len(Head(words)) > MinWordLength /\ Head(words) \notin StopWords
          THEN <<Head(words)>> \o rest ELSE rest

\* Mutant: every remaining token is a key term.
AllKeyTerms(query) == FilterWords(Split(ToLowerCase(query)))

\* extractKeyTerms
ExtractKeyTerms(query) == Slice(FilterWords(Split(ToLowerCase(query))), MaxKeyTerms)

\* searchAllConsciousness: the transcript hits mapped, the bank hits, and their ranking;
\* calls lists the queries the transcript search capability was invoked with.
SearchAll(fs, now, query, search) ==
  LET sessionResults == SearchSessions(TranscriptSearch(search, query, now))
      memory == SearchAllBanks(fs, query)
  IN IF memory.threw
     THEN [threw |-> TRUE, error |-> memory.error, calls |-> <<query>>,
           all |-> <<>>, results |-> <<>>]
     ELSE [threw |-> FALSE, error |-> NoError, calls |-> <<query>>,
           all |-> sessionResults \o memory.results,
           results |-> RankUnifiedResults(sessionResults \o memory.results, query, now)]

\* Mutant: a related insight is dropped only when its session id differs.
RemoveByContentOnly(related, directMatches) ==
  SelectSeq(related, LAMBDA r :
    ~ \E k \in 1..Len(directMatches) :
        directMatches[k].content = r.content /\ directMatches[k].sessionId # r.sessionId)

\* relatedInsights.filter(related => !directMatches.some(same content and sessionId))
RemoveDuplicates(related, directMatches) ==
  SelectSeq(related, LAMBDA r :
    ~ \E k \in 1..Len(directMatches) :
        directMatches[k].content = r.content /\ directMatches[k].sessionId = r.sessionId)

CountSource(results, source) ==
  Cardinality({k \in 1..Len(results) : results[k].source = source})

\* generateRecommendations: the recommendations, each named by its rule.
GenerateRecommendations(directMatches, relatedInsights) ==
  LET sessionSources == CountSource(directMatches, "session")
      memorySources == CountSource(directMatches, "memory_bank")
  IN (IF Len(directMatches) = 0 THEN <<"no_direct_matches">> ELSE <<>>)
     \o (IF Len(directMatches) > 0 /\ sessionSources > memorySources
         THEN <<"mostly_sessions">> ELSE <<>>)
     \o (IF Len(directMatches) > 0 /\ memorySources > sessionSources
         THEN <<"mostly_memory">> ELSE <<>>)
     \o (IF Len(relatedInsights) > ManyRelated THEN <<"many_related">> ELSE <<>>)

\* ------------------------------------------------------------------ the ranker alone
\* The largest relevanceScore of the results handed to the ranker.
MaxScore == 9
\* The longest list handed to the ranker.
MaxResults == 2

\* Date.now() of the ranking.
RankNow == 100 * TicksPerDay
\* A UnifiedConsciousnessResult of either source.
UnifiedResult(source, relevanceScore, content, timestamp) ==
  IF source = "session"
  THEN [source |-> "session", bankName |-> Undefined, entityName |-> UndefinedStr,
        content |-> content, relevanceScore |-> relevanceScore,
        projectId |-> "p1", sessionId |-> "s1", timestamp |-> timestamp]
  ELSE [source |-> "memory_bank", bankName |-> "development_patterns",
        entityName |-> NameA, content |-> content, relevanceScore |-> relevanceScore,
        projectId |-> Undefined, sessionId |-> Undefined, timestamp |-> timestamp]

\* The results handed to the ranker: of either source, of relevanceScore HighRelevance
\* and above, of two contents, and with the context timestamp absent, unparsable, and
\* 29, 30, 90 and 91 days old and an hour past 30.
RankInputs ==
  LET times == { UndefinedTime, InvalidTime,
                 RankNow - 29 * TicksPerDay, RankNow - 30 * TicksPerDay,
                 RankNow - 30 * TicksPerDay - 1, RankNow - 90 * TicksPerDay,
                 RankNow - 91 * TicksPerDay }
  IN { UnifiedResult(src, r, c, t) :
         src \in {"session", "memory_bank"}, r \in HighRelevance..MaxScore,
         c \in {ObsJWT, NameT}, t \in times }

\* A call of rankUnifiedResults that has not run yet: its arguments.
RankCalled(results, query) ==
  [IdleProc EXCEPT !.pc = "rankUnifiedResults", !.input = <<results, query>>]

\* The call runs; the list with the ranking keys is kept beside the returned list.
Rank(p) ==
  /\ procs[p].pc = "rankUnifiedResults"
  /\ LET results == procs[p].input[1]
         query == procs[p].input[2]
     IN last' = Returned("rankUnifiedResults", Undefined, <<>>,
                         WithFinalScore(results, query, clock), <<query>>,
                         RankUnifiedResults(results, query, clock))
  /\ procs' = [procs EXCEPT ![p] = IdleProc]
  /\ UNCHANGED <<files, clock>>

InitRank ==
  /\ files = [b \in BankNames |-> MissingFile]
  /\ clock = RankNow
  /\ \E n \in 0..MaxResults : \E results \in [1..n -> RankInputs], q \in { <<"j", "W">> } :
       procs = [p \in Procs |-> IF p = "p1" THEN RankCalled(results, q) ELSE IdleProc]
  /\ last = Returned("none", Undefined, <<>>, <<>>, <<>>, <<>>)

NextRank == \E p \in Procs : Rank(p)

SpecRank == InitRank /\ [][NextRank]_vars

\* The loop over the key terms: the top hits of each term and the queries the
\* transcript search was invoked with, up to the first search that throws.
RECURSIVE SearchTerms(_, _, _, _)
SearchTerms(fs, now, terms, search) ==
  IF terms = <<>> THEN [threw |-> FALSE, error |-> NoError, calls |-> <<>>, top |-> <<>>]
  ELSE LET termResults == SearchAll(fs, now, Head(terms), search) IN
       IF termResults.threw
       THEN [threw |-> TRUE, error |-> termResults.error,
             calls |-> termResults.calls, top |-> <<>>]
       ELSE LET rest == SearchTerms(fs, now, Tail(terms), search)
            IN [rest EXCEPT !.calls = termResults.calls \o @,
                            !.top = <<Slice(termResults.results, TopPerTerm)>> \o @]

RECURSIVE Flatten(_)
Flatten(lists) == IF lists = <<>> THEN <<>> ELSE Head(lists) \o Flatten(Tail(lists))

\* What queryDevelopmentConsciousness resolves with, beside what it computed on the way.
QueryReturned(text, search, keyTerms, calls, direct, top, uniqueRelated) ==
  Returned("queryNaturalLanguage", Undefined, <<>>, direct, calls,
           Slice(direct, MaxDirectMatches))
    @@ [text |-> text, search |-> search, keyTerms |-> keyTerms, top |-> top,
        relatedInsights |-> Slice(uniqueRelated, MaxRelatedInsights),
        recommendations |-> GenerateRecommendations(direct, uniqueRelated)]

QueryThrew(text, search, calls, error) ==
  Threw("queryNaturalLanguage", Undefined, error)
    @@ [text |-> text, search |-> search, keyTerms |-> <<>>, top |-> <<>>,
        relatedInsights |-> <<>>, recommendations |-> <<>>]

SearchAllConsciousness(query, search) ==
  /\ UNCHANGED <<files, clock, procs>>
  /\ LET found == SearchAll(files, clock, query, search) IN
     IF found.threw
     THEN last' = Threw("searchAll", Undefined, found.error)
     ELSE last' = Returned("searchAll", Undefined, <<>>, found.all, <<query>>, found.results)

QueryDevelopmentConsciousness(text, search) ==
  /\ UNCHANGED <<files, clock, procs>>
  /\ LET keyTerms == ExtractKeyTerms(text)
         direct == SearchAll(files, clock, text, search)
     IN IF direct.threw
        THEN last' = QueryThrew(text, search, direct.calls, direct.error)
        ELSE LET related == SearchTerms(files, clock, keyTerms, search) IN
             IF related.threw
             THEN last' = QueryThrew(text, search, direct.calls \o related.calls,
                                     related.error)
             ELSE last' = QueryReturned(text, search, keyTerms,
                                        direct.calls \o related.calls, direct.results,
                                        related.top,
                                        RemoveDuplicates(Flatten(related.top),
                                                         direct.results))

\* The file of a bank after createEntitiesInBank stored the entities at a given time.
CreatedAt(file, bankName, entities, timestamp) ==
  LET graph == LoadBankGraph(file).graph
  IN SaveBankGraph(file, bankName,
       [graph EXCEPT !.entities = @ \o NewEntities(graph, entities, timestamp, bankName)])

\* Bank files: two entities stored 91 and 29 days ago, and one stored 30 days and an
\* hour ago.
Stored ==
  [development_patterns |->
     CreatedAt(CreatedAt(MissingFile, "development_patterns",
                         <<EntityObj(NameA, TypeT, <<ObsJWT>>)>>,
                         RankNow - 91 * TicksPerDay),
               "development_patterns",
               <<EntityObj(NameT, TypeJ, <<ObsJw, ObsJWT>>)>>, RankNow - 29 * TicksPerDay),
   breakthrough_moments |->
     CreatedAt(MissingFile, "breakthrough_moments",
               <<EntityObj(NameT, TypeT, <<ObsJWT>>)>>, RankNow - 30 * TicksPerDay - 1)]
\* The texts asked: empty, one term, two terms, and one with stop words, a repeated
\* term, runs of white space and more than MaxKeyTerms terms.
QueryTexts ==
  { <<>>,
    <<"j", "w", "t">>,
    <<"j", "w", "t", " ", "t", "e", "a">>,
    <<"h", "o", "w", " ", "t", "o", " ", "J", "W", "T", " ", "j", "w", "t">>
      \o <<" ", "t", "h", "e", " ", "t", "e", "a", " ", " ", "a", "b", "c", "\t">>
      \o <<"a", "b", "d", " ", "a", "b", "e", " ", "a", "b", "f", " ">> }

InitSearch ==
  /\ files \in [BankNames -> {MissingFile, UnreadableFile("EACCES"),
                              Stored.development_patterns,
                              Stored.breakthrough_moments}]
  /\ files["development_patterns"] \in {MissingFile, Stored.development_patterns}
  /\ files["breakthrough_moments"] \in {MissingFile, Stored.breakthrough_moments}
  /\ files["collaboration_insights"] \in {MissingFile, UnreadableFile("EACCES")}
  /\ files["project_evolution"] = MissingFile
  /\ files["community_wisdom"] = MissingFile
  /\ clock = RankNow
  /\ procs = [p \in Procs |-> IdleProc]
  /\ last = Returned("none", Undefined, <<>>, <<>>, <<>>, <<>>)

NextSearch ==
  \/ \E q \in Queries, search \in TranscriptSearches : SearchAllConsciousness(q, search)
  \/ \E text \in QueryTexts, search \in TranscriptSearches :
       QueryDevelopmentConsciousness(text, search)

SpecSearch == InitSearch /\ [][NextSearch]_vars

\* ------------------------------------------------------------------ pattern extractor
\* Confidences are counted in 420ths, so that k/14*2, k/3, k/2 and the decimal caps are
\* whole numbers.
ConfidenceUnit == 420

TechnicalKeywords ==
  << <<"i", "m", "p", "l", "e", "m", "e", "n", "t", "a", "t", "i", "o", "n">>,
     <<"a", "r", "c", "h", "i", "t", "e", "c", "t", "u", "r", "e">>,
     <<"p", "a", "t", "t", "e", "r", "n">>,
     <<"a", "p", "p", "r", "o", "a", "c", "h">>,
     <<"s", "o", "l", "u", "t", "i", "o", "n">>,
     <<"o", "p", "t", "i", "m", "i", "z", "a", "t", "i", "o", "n">>,
     <<"p", "e", "r", "f", "o", "r", "m", "a", "n", "c", "e">>,
     <<"a", "l", "g", "o", "r", "i", "t", "h", "m">>,
     <<"d", "a", "t", "a", " ", "s", "t", "r", "u", "c", "t", "u", "r", "e">>,
     <<"a", "p", "i">>,
     <<"d", "a", "t", "a", "b", "a", "s", "e">>,
     <<"f", "r", "a", "m", "e", "w", "o", "r", "k">>,
     <<"l", "i", "b", "r", "a", "r", "y">>,
     <<"d", "e", "b", "u", "g", "g", "i", "n", "g">> >>
BreakthroughIndicators ==
  << <<"e", "x", "a", "c", "t", "l", "y", " ", ":", "p">>,
     <<"b", "r", "e", "a", "k", "t", "h", "r", "o", "u", "g", "h">>,
     <<"a", "h", "a", "!">>,
     <<"p", "e", "r", "f", "e", "c", "t", "!">>,
     <<"t", "h", "a", "t", "'", "s", " ", "i", "t", "!">>,
     <<"b", "r", "i", "l", "l", "i", "a", "n", "t", "!">>,
     <<"g", "e", "n", "i", "u", "s">>,
     <<"b", "e", "a", "u", "t", "i", "f", "u", "l">>,
     <<"w", "o", "n", "d", "e", "r", "f", "u", "l">>,
     <<"a", "m", "a", "z", "i", "n", "g">> >>
CollaborationIndicators ==
  << <<"w", "e", " ", "s", "h", "o", "u", "l", "d">>,
     <<"l", "e", "t", "'", "s">>,
     <<"t", "o", "g", "e", "t", "h", "e", "r">>,
     <<"c", "o", "l", "l", "a", "b", "o", "r", "a", "t", "i", "o", "n">>,
     <<"p", "a", "r", "t", "n", "e", "r", "s", "h", "i", "p">>,
     <<"c", "o", "-", "c", "r", "e", "a", "t", "e">>,
     <<"w", "o", "r", "k", "i", "n", "g", " ", "w", "i", "t", "h">>,
     <<"h", "u", "m", "a", "n", "-", "a", "i">>,
     <<"c", "o", "n", "s", "c", "i", "o", "u", "s", "n", "e", "s", "s">> >>
SolutionKeywords ==
  << <<"a", "p", "p", "r", "o", "a", "c", "h">>,
     <<"m", "e", "t", "h", "o", "d">>,
     <<"s", "t", "r", "a", "t", "e", "g", "y">>,
     <<"t", "e", "c", "h", "n", "i", "q", "u", "e">>,
     <<"p", "r", "o", "c", "e", "s", "s">>,
     <<"w", "o", "r", "k", "f", "l", "o", "w">>,
     <<"m", "e", "t", "h", "o", "d", "o", "l", "o", "g", "y">>,
     <<"b", "e", "s", "t", " ", "p", "r", "a", "c", "t", "i", "c", "e">>,
     <<"p", "a", "t", "t", "e", "r", "n">> >>
Marker == <<"e", "x", "a", "c", "t", "l", "y", " ", ":", "p">>
\* lowerSentence.includes('how') || lowerSentence.includes('should')
SolutionCues == { <<"h", "o", "w">>, <<"s", "h", "o", "u", "l", "d">> }
ContentLimit == 10000
MinTechnicalLength == 20
MinBreakthroughLength == 10
MinCollaborationLength == 15
MinSolutionLength == 20
MinTechnicalMatches == 2
TechnicalCap == 378
MarkerConfidence == 399
BreakthroughConfidence == 294
CollaborationDivisor == 3
CollaborationCap == 336
SolutionDivisor == 2
SolutionCap == 294
MinToolCalls == 3
ToolConfidence == 252
QualityGate == 210
PreviewLength == 50

Min(a, b) == IF a < b THEN a ELSE b

\* String.prototype.trim
Trim(s) ==
  LET inked(i) == s[i] \notin Spaces IN
  IF \A i \in 1..Len(s) : ~ inked(i) THEN <<>>
  ELSE SubSeq(s,
         CHOOSE i \in 1..Len(s) : inked(i) /\ \A j \in 1..(i - 1) : ~ inked(j),
         CHOOSE i \in 1..Len(s) : inked(i) /\ \A j \in (i + 1)..Len(s) : ~ inked(j))

\* A transcript as the extractor is handed it. lacks names the fields the object does
\* not carry; a message without a body has content UndefinedStr.
Session(id, projectId, timestamp, messages, toolCalls, lacks) ==
  [id |-> id, projectId |-> projectId, timestamp |-> timestamp,
   messages |-> messages, toolCalls |-> toolCalls, lacks |-> lacks]

TypeError == [kind |-> "TypeError", bank |-> Undefined, entity |-> UndefinedStr]

\* getSessionContent: the message bodies joined by a space (a missing body joins as the
\* empty string), cut at ContentLimit characters.
GetSessionContent(session) ==
  Slice(Join([i \in 1..Len(session.messages) |->
                IF session.messages[i].content = UndefinedStr THEN <<>>
                ELSE session.messages[i].content], <<" ">>),
        ContentLimit)

\* content.split(/[.!?]+/).filter(s => s.trim().length > minLength)
SplitSentences(content) == SplitFrom(content, {".", "!", "?"}, 1, <<>>, FALSE)
Sentences(content, minLength) ==
  SelectSeq(SplitSentences(content), LAMBDA sentence : Len(Trim(sentence)) > minLength)

\* keywords.filter(keyword => lowerSentence.includes(keyword)).length
CountMatches(keywords, lowerSentence) ==
  Cardinality({i \in 1..Len(keywords) : Includes(lowerSentence, keywords[i])})

Pattern(type, content, context, confidence, sessionId, projectId, timestamp) ==
  [type |-> type, content |-> content, context |-> context, confidence |-> confidence,
   extractedFrom |-> [sessionId |-> sessionId, projectId |-> projectId,
                      timestamp |-> timestamp]]

\* What a rule pass gives: its patterns, or the error that session.timestamp
\* .toISOString() throws on a transcript without timestamp once a sentence qualifies.
RuleResult(session, patterns) ==
  IF patterns # <<>> /\ session.timestamp = UndefinedTime
  THEN [threw |-> TRUE, error |-> TypeError, patterns |-> <<>>]
  ELSE [threw |-> FALSE, error |-> NoError, patterns |-> patterns]

\* Mutant: the factor 2 of the technical confidence is left out.
TechnicalConfidenceSingle(keywordMatches) ==
  Min((keywordMatches * ConfidenceUnit) \div Len(TechnicalKeywords), TechnicalCap)

\* Math.min(keywordMatches / technicalKeywords.length * 2, 0.9)
TechnicalConfidence(keywordMatches) ==
  Min(((keywordMatches * ConfidenceUnit) \div Len(TechnicalKeywords)) * 2, TechnicalCap)

\* The context text of each rule; the session id follows it.
Context ==
  [technical_insight |->
     <<"T", "e", "c", "h", "n", "i", "c", "a", "l", " ", "d", "i">>
       \o <<"s", "c", "u", "s", "s", "i", "o", "n", " ", "i", "n", " ">>
       \o <<"s", "e", "s", "s", "i", "o", "n", " ">>,
   breakthrough_moment |->
     <<"B", "r", "e", "a", "k", "t", "h", "r", "o", "u", "g", "h">>
       \o <<" ", "d", "i", "s", "c", "o", "v", "e", "r", "y", " ", "i">>
       \o <<"n", " ", "s", "e", "s", "s", "i", "o", "n", " ">>,
   collaboration_pattern |->
     <<"C", "o", "l", "l", "a", "b", "o", "r", "a", "t", "i", "o">>
       \o <<"n", " ", "i", "n", "s", "i", "g", "h", "t", " ", "i", "n">>
       \o <<" ", "s", "e", "s", "s", "i", "o", "n", " ">>,
   solution_approach |->
     <<"S", "o", "l", "u", "t", "i", "o", "n", " ", "d", "i", "s">>
       \o <<"c", "u", "s", "s", "i", "o", "n", " ", "i", "n", " ", "s">>
       \o <<"e", "s", "s", "i", "o", "n", " ">>]
\* The texts of the tool usage pattern; the arrow between the tool names is written
\* with the one character ">".
ToolText ==
  [content |-> <<"T", "o", "o", "l", " ", "u", "s", "a", "g", "e", " ", "p">>
       \o <<"a", "t", "t", "e", "r", "n", ":", " ">>,
   context |-> <<"D", "e", "v", "e", "l", "o", "p", "m", "e", "n", "t", " ">>
       \o <<"w", "o", "r", "k", "f", "l", "o", "w", " ", "p", "a", "t">>
       \o <<"t", "e", "r", "n", " ", "w", "i", "t", "h", " ">>,
   calls |-> <<" ", "t", "o", "o", "l", " ", "c", "a", "l", "l", "s">>,
   sessionId |-> <<"e", "x", "t", "r", "a", "c", "t", "e", "d", "_", "f", "r">>
       \o <<"o", "m", "_", "t", "o", "o", "l", "s">>,
   projectId |-> <<"t", "o", "o", "l", "_", "a", "n", "a", "l", "y", "s", "i">>
       \o <<"s">>,
   arrow |-> <<" ", ">", " ">>]
\* Number to string, for a number that is a whole number and not negative.
DigitChars == <<"0", "1", "2", "3", "4", "5", "6", "7", "8", "9">>
RECURSIVE Digits(_)
Digits(n) ==
  IF n < 10 THEN <<DigitChars[n + 1]>>
  ELSE Digits(n \div 10) \o <<DigitChars[(n % 10) + 1]>>

ExtractTechnicalInsights(session, content) ==
  LET matches(sentence) == CountMatches(TechnicalKeywords, ToLowerCase(sentence))
      qualifying == SelectSeq(Sentences(content, MinTechnicalLength),
                              LAMBDA sentence : matches(sentence) >= MinTechnicalMatches)
  IN RuleResult(session, [i \in 1..Len(qualifying) |->
       Pattern("technical_insight", Trim(qualifying[i]),
               Context.technical_insight \o session.id,
               TechnicalConfidence(matches(qualifying[i])),
               session.id, session.projectId, session.timestamp)])

\* The first indicator, in list order, that the lowercased sentence contains; 0 if none.
FirstIndicator(lowerSentence) ==
  LET found == {i \in 1..Len(BreakthroughIndicators) :
                  Includes(lowerSentence, BreakthroughIndicators[i])}
  IN IF found = {} THEN 0 ELSE CHOOSE i \in found : \A j \in found : i <= j

ExtractBreakthroughMoments(session, content) ==
  LET qualifying == SelectSeq(Sentences(content, MinBreakthroughLength),
                              LAMBDA sentence : FirstIndicator(ToLowerCase(sentence)) # 0)
  IN RuleResult(session, [i \in 1..Len(qualifying) |->
       Pattern("breakthrough_moment", Trim(qualifying[i]),
               Context.breakthrough_moment \o session.id,
               IF BreakthroughIndicators[FirstIndicator(ToLowerCase(qualifying[i]))]
                    = Marker
               THEN MarkerConfidence ELSE BreakthroughConfidence,
               session.id, session.projectId, session.timestamp)])

ExtractCollaborationPatterns(session, content) ==
  LET matches(sentence) == CountMatches(CollaborationIndicators, ToLowerCase(sentence))
      qualifying == SelectSeq(Sentences(content, MinCollaborationLength),
                              LAMBDA sentence : matches(sentence) >= 1)
  IN RuleResult(session, [i \in 1..Len(qualifying) |->
       Pattern("collaboration_pattern", Trim(qualifying[i]),
               Context.collaboration_pattern \o session.id,
               Min((matches(qualifying[i]) * ConfidenceUnit) \div CollaborationDivisor,
                   CollaborationCap),
               session.id, session.projectId, session.timestamp)])

\* analyzeToolUsagePatterns, for a tool-invocation list that is there.
AnalyzeToolUsagePatterns(toolCalls, now) ==
  IF Len(toolCalls) >= MinToolCalls
  THEN << Pattern("solution_approach",
                  ToolText.content \o Join([i \in 1..Len(toolCalls) |->
                                              IF toolCalls[i].name = UndefinedStr THEN <<>>
                                              ELSE toolCalls[i].name], ToolText.arrow),
                  ToolText.context \o Digits(Len(toolCalls)) \o ToolText.calls,
                  ToolConfidence, ToolText.sessionId, ToolText.projectId, now) >>
  ELSE <<>>

\* extractSolutionApproaches: session.toolCalls.length throws when the list is absent.
ExtractSolutionApproaches(session, content, now) ==
  IF "toolCalls" \in session.lacks
  THEN [threw |-> TRUE, error |-> TypeError, patterns |-> <<>>]
  ELSE LET matches(sentence) == CountMatches(SolutionKeywords, ToLowerCase(sentence))
           qualifying ==
             SelectSeq(Sentences(content, MinSolutionLength), LAMBDA sentence :
               /\ matches(sentence) >= 1
               /\ \E cue \in SolutionCues : Includes(ToLowerCase(sentence), cue))
           discussed == RuleResult(session, [i \in 1..Len(qualifying) |->
             Pattern("solution_approach", Trim(qualifying[i]),
                     Context.solution_approach \o session.id,
                     Min((matches(qualifying[i]) * ConfidenceUnit) \div SolutionDivisor,
                         SolutionCap),
                     session.id, session.projectId, session.timestamp)])
       IN [discussed EXCEPT !.patterns =
             IF discussed.threw THEN <<>>
             ELSE AnalyzeToolUsagePatterns(session.toolCalls, now) \o @]

\* Mutant: every candidate passes the gate.
PassAll(patterns) == patterns

\* Mutant: a pattern of confidence exactly 0.5 passes the gate.
PassGateInclusive(patterns) == SelectSeq(patterns, LAMBDA p : p.confidence >= QualityGate)

\* patterns.filter(p => p.confidence > 0.5)
PassGate(patterns) == SelectSeq(patterns, LAMBDA p : p.confidence > QualityGate)

\* extractPatternsFromSession: session.messages.map throws when the list is absent; the
\* four rule passes run in turn and the first that throws ends the call. candidates
\* are the patterns of the four passes before the gate.
ExtractPatternsFromSession(session, now) ==
  LET thrown == [threw |-> TRUE, error |-> TypeError, candidates |-> <<>>, patterns |-> <<>>]
  IN IF "messages" \in session.lacks THEN thrown
     ELSE LET content == GetSessionContent(session)
              technical == ExtractTechnicalInsights(session, content)
              breakthrough == ExtractBreakthroughMoments(session, content)
              collaboration == ExtractCollaborationPatterns(session, content)
              solution == ExtractSolutionApproaches(session, content, now)
              candidates == technical.patterns \o breakthrough.patterns
                              \o collaboration.patterns \o solution.patterns
          IN IF technical.threw \/ breakthrough.threw \/ collaboration.threw
                \/ solution.threw
             THEN thrown
             ELSE [threw |-> FALSE, error |-> NoError, candidates |-> candidates,
                   patterns |-> PassGate(candidates)]

\* ------------------------------------------------------------------ patterns to entities
\* pattern.type as the characters of the string.
TypeChars ==
  [technical_insight |-> <<"t", "e", "c", "h", "n", "i", "c", "a", "l", "_", "i", "n">>
       \o <<"s", "i", "g", "h", "t">>,
   breakthrough_moment |-> <<"b", "r", "e", "a", "k", "t", "h", "r", "o", "u", "g", "h">>
       \o <<"_", "m", "o", "m", "e", "n", "t">>,
   collaboration_pattern |-> <<"c", "o", "l", "l", "a", "b", "o", "r", "a", "t", "i", "o">>
       \o <<"n", "_", "p", "a", "t", "t", "e", "r", "n">>,
   solution_approach |-> <<"s", "o", "l", "u", "t", "i", "o", "n", "_", "a", "p", "p">>
       \o <<"r", "o", "a", "c", "h">>]

\* String.prototype.replace('_', ' '): the first underscore only.
RECURSIVE ReplaceFirstUnderscore(_)
ReplaceFirstUnderscore(s) ==
  IF s = <<>> THEN <<>>
  ELSE IF Head(s) = "_" THEN <<" ">> \o Tail(s)
  ELSE <<Head(s)>> \o ReplaceFirstUnderscore(Tail(s))

\* /[a-zA-Z0-9\s]/
IsNameChar(c) ==
  \/ c \in DOMAIN LowerOf
  \/ \E u \in DOMAIN LowerOf : c = LowerOf[u]
  \/ \E i \in 1..Len(DigitChars) : c = DigitChars[i]
  \/ c \in Spaces

\* generateEntityName: `${typePrefix}: ${contentPreview}... (${timestamp})`
GenerateEntityName(pattern) ==
  ReplaceFirstUnderscore(TypeChars[pattern.type]) \o <<":", " ">>
    \o SelectSeq(Slice(pattern.content, PreviewLength), IsNameChar)
    \o <<".", ".", ".", " ", "(">>
    \o Digits(pattern.extractedFrom.timestamp) \o <<")">>

\* The fixed texts of an entity's observations and of its extractedFrom.
Label ==
  [context |-> <<"C", "o", "n", "t", "e", "x", "t", ":", " ">>,
   confidence |-> <<"C", "o", "n", "f", "i", "d", "e", "n", "c", "e", ":", " ">>,
   source |-> <<"S", "o", "u", "r", "c", "e", ":", " ", "S", "e", "s", "s">>
       \o <<"i", "o", "n", " ">>,
   project |-> <<" ", "i", "n", " ", "p", "r", "o", "j", "e", "c", "t", " ">>,
   timestamp |-> <<"T", "i", "m", "e", "s", "t", "a", "m", "p", ":", " ">>,
   session |-> <<"s", "e", "s", "s", "i", "o", "n", ":">>]
\* patternsToEntities: the entity of one pattern. The confidence is written as the
\* fraction of its 420ths.
PatternEntity(pattern, sessionId, projectId, now) ==
  [EntityObj(GenerateEntityName(pattern), TypeChars[pattern.type],
             << pattern.content,
                Label.context \o pattern.context,
                Label.confidence \o Digits(pattern.confidence) \o <<"/">>
                  \o Digits(ConfidenceUnit),
                Label.source \o sessionId \o Label.project \o projectId,
                Label.timestamp \o Digits(pattern.extractedFrom.timestamp) >>)
     EXCEPT !.createdAt = now]
    @@ [projectId |-> projectId, sessionId |-> sessionId,
        extractedFrom |-> Label.session \o sessionId,
        confidenceScore |-> pattern.confidence]

PatternsToEntities(patterns, sessionId, projectId, now) ==
  [i \in 1..Len(patterns) |-> PatternEntity(patterns[i], sessionId, projectId, now)]

\* Mutant: a solution approach is assigned to project_evolution.
BankOfTypeEvolution(entityType) ==
  CASE entityType = TypeChars.technical_insight -> "development_patterns"
    [] entityType = TypeChars.solution_approach -> "project_evolution"
    [] entityType = TypeChars.breakthrough_moment -> "breakthrough_moments"
    [] entityType = TypeChars.collaboration_pattern -> "collaboration_insights"
    [] OTHER -> Undefined

\* The switch on pattern.type: the bank an entity is assigned to.
BankOfType(entityType) ==
  CASE entityType = TypeChars.technical_insight -> "development_patterns"
    [] entityType = TypeChars.solution_approach -> "development_patterns"
    [] entityType = TypeChars.breakthrough_moment -> "breakthrough_moments"
    [] entityType = TypeChars.collaboration_pattern -> "collaboration_insights"
    [] OTHER -> Undefined

\* Object.entries(bankAssignments): the keys in the order they were written.
AssignmentOrder ==
  <<"development_patterns", "breakthrough_moments", "collaboration_insights",
    "project_evolution">>

BankAssignment(entities, bankName) ==
  SelectSeq(entities, LAMBDA e : BankOfType(e.entityType) = bankName)

\* The loop over the bank assignments: createEntitiesInBank for every bank that was
\* assigned an entity; a load that throws ends the loop with the earlier banks written.
RECURSIVE StoreAssignments(_, _, _, _)
StoreAssignments(fs, banks, entities, now) ==
  IF banks = <<>> THEN [files |-> fs, threw |-> FALSE, error |-> NoError, stored |-> <<>>]
  ELSE LET bankName == Head(banks)
           bankEntities == BankAssignment(entities, bankName)
           loaded == LoadBankGraph(fs[bankName])
       IN IF bankEntities = <<>> THEN StoreAssignments(fs, Tail(banks), entities, now)
          ELSE IF loaded.threw
          THEN [files |-> fs, threw |-> TRUE, error |-> loaded.error, stored |-> <<>>]
          ELSE LET rest ==
                     StoreAssignments(
                       [fs EXCEPT ![bankName] = CreatedAt(fs[bankName], bankName,
                                                          bankEntities, now)],
                       Tail(banks), entities, now)
               IN [rest EXCEPT !.stored =
                     << [bank |-> bankName,
                         entities |-> NewEntities(loaded.graph, bankEntities, now,
                                                  bankName)] >> \o @]

\* ------------------------------------------------------------------ transcripts
\* Message bodies: two sentences with two and with four technical keywords; one
\* technical keyword; the marker phrase alone, in another letter case; the marker
\* phrase in a longer sentence beside another indicator, then alone, then another
\* indicator without it; one solution keyword with "how"; two collaboration indicators;
\* one sentence twice; the indicator "aha!" in a sentence of eleven characters; two
\* solution keywords with "how".
Text ==
  [technical |->
     <<"t", "h", "e", " ", "a", "p", "i", " ", "a", "n", "d", " ">>
       \o <<"d", "a", "t", "a", "b", "a", "s", "e", " ", "w", "o", "r">>
       \o <<"k", ".", " ", "a", "p", "i", " ", "d", "a", "t", "a", "b">>
       \o <<"a", "s", "e", " ", "f", "r", "a", "m", "e", "w", "o", "r">>
       \o <<"k", " ", "l", "i", "b", "r", "a", "r", "y">>,
   oneKeyword |->
     <<"a", "n", " ", "a", "p", "i", " ", "i", "s", " ", "a", "l">>
       \o <<"l", " ", "w", "e", " ", "h", "a", "v", "e", " ", "h", "e">>
       \o <<"r", "e">>,
   markerAlone |->
     <<"E", "x", "a", "c", "t", "l", "y", " ", ":", "P">>,
   markers |->
     <<"y", "e", "s", ",", " ", "E", "x", "a", "c", "t", "l", "y">>
       \o <<" ", ":", "P", "!", " ", "a", "m", "a", "z", "i", "n", "g">>
       \o <<",", " ", "e", "x", "a", "c", "t", "l", "y", " ", ":", "p">>
       \o <<".", " ", "a", "m", "a", "z", "i", "n", "g", " ", "w", "o">>
       \o <<"r", "k", " ", "d", "o", "n", "e">>,
   method |->
     <<"h", "o", "w", " ", "i", "s", " ", "t", "h", "e", " ", "m">>
       \o <<"e", "t", "h", "o", "d", " ", "u", "s", "e", "d", " ", "h">>
       \o <<"e", "r", "e">>,
   together |->
     <<"w", "e", " ", "s", "h", "o", "u", "l", "d", " ", "w", "o">>
       \o <<"r", "k", " ", "t", "o", "g", "e", "t", "h", "e", "r", " ">>
       \o <<"n", "o", "w">>,
   repeated |->
     <<"a", "m", "a", "z", "i", "n", "g", " ", "w", "o", "r", "k">>
       \o <<" ", "d", "o", "n", "e", "!", " ", "a", "m", "a", "z", "i">>
       \o <<"n", "g", " ", "w", "o", "r", "k", " ", "d", "o", "n", "e">>,
   aha |->
     <<"w", "e", " ", "s", "a", "i", "d", " ", "a", "h", "a", "!">>
       \o <<" ", "a", "n", "d", " ", "s", "o", " ", "o", "n">>,
   strategy |->
     <<"h", "o", "w", " ", "i", "s", " ", "t", "h", "e", " ", "m">>
       \o <<"e", "t", "h", "o", "d", " ", "a", "n", "d", " ", "s", "t">>
       \o <<"r", "a", "t", "e", "g", "y", " ", "u", "s", "e", "d">>]
\* Three tool invocations, the last without a name.
ThreeTools ==
  << [name |-> <<"R", "e", "a", "d">>], [name |-> <<"E", "d", "i", "t">>],
     [name |-> UndefinedStr] >>

\* The transcripts handed to the extractor: well-formed ones, and ones without message
\* list, without tool-invocation list, without timestamp, with a message without body.
Sessions ==
  LET Of(timestamp, bodies, toolCalls, lacks) ==
        Session(<<"s">>, <<"p">>, timestamp,
                [i \in 1..Len(bodies) |-> [content |-> bodies[i]]], toolCalls, lacks)
  IN { Of(1, <<Text.technical>>, <<>>, {}),
       Of(1, <<Text.oneKeyword>>, <<>>, {}),
       Of(1, <<Text.markerAlone>>, <<>>, {}),
       Of(1, <<Text.markers>>, <<>>, {}),
       Of(1, <<Text.method, Text.together>>, <<ThreeTools[1]>>, {}),
       Of(1, <<>>, ThreeTools, {}),
       Of(1, <<>>, <<>>, {}),
       Of(1, <<UndefinedStr>>, <<>>, {}),
       Of(1, <<>>, <<>>, {"messages"}),
       Of(1, <<Text.together>>, <<>>, {"toolCalls"}),
       Of(UndefinedTime, <<Text.oneKeyword>>, <<>>, {}),
       Of(UndefinedTime, <<Text.together>>, <<>>, {}),
       Of(1, <<Text.repeated>>, <<>>, {}),
       Of(1, <<Text.aha>>, <<>>, {}),
       Of(1, <<Text.strategy>>, <<>>, {}) }

\* extractPatternsFromSession of every transcript at every time of the clock.
Extractions ==
  [session \in Sessions, now \in 1..MaxClock |->
     ExtractPatternsFromSession(session, now)]

\* What an extraction leaves behind: the transcript, the candidates of the four passes
\* (items) and the patterns returned (results).
Extracted(op, session, extraction, stored) ==
  Returned(op, Undefined, <<>>, extraction.candidates, <<>>, extraction.patterns)
    @@ [session |-> session, stored |-> stored]
ExtractionThrew(op, session, error) ==
  Threw(op, Undefined, error) @@ [session |-> session, stored |-> <<>>]

\* One call of extractPatternsFromSession.
ExtractPatterns(session) ==
  /\ UNCHANGED <<files, clock, procs>>
  /\ LET extraction == Extractions[session, clock] IN
     IF extraction.threw
     THEN last' = ExtractionThrew("extractPatterns", session, extraction.error)
     ELSE last' = Extracted("extractPatterns", session, extraction, <<>>)

\* processSessionForConsciousness: extract, convert, store bank by bank.
ProcessSessionForConsciousness(sessionId, projectId, session) ==
  /\ UNCHANGED <<clock, procs>>
  /\ LET extraction == Extractions[session, clock] IN
     IF extraction.threw
     THEN /\ files' = files
          /\ last' = ExtractionThrew("processTranscript", session, extraction.error)
     ELSE LET entities == PatternsToEntities(extraction.patterns, sessionId, projectId,
                                             clock)
              outcome == StoreAssignments(files, AssignmentOrder, entities, clock)
          IN /\ files' = outcome.files
             /\ TotalLines(files') <= MaxLines
             /\ IF outcome.threw
                THEN last' = ExtractionThrew("processTranscript", session, outcome.error)
                ELSE last' = Extracted("processTranscript", session, extraction,
                                       outcome.stored)

InitExtract ==
  /\ files \in [BankNames -> {MissingFile, UnreadableFile("EACCES")}]
  /\ \A b \in BankNames \ {"collaboration_insights"} : files[b] = MissingFile
  /\ clock = 1
  /\ procs = [p \in Procs |-> IdleProc]
  /\ last = Returned("none", Undefined, <<>>, <<>>, <<>>, <<>>)

NextExtract ==
  \/ \E session \in Sessions : ExtractPatterns(session)
  \/ \E session \in Sessions :
       ProcessSessionForConsciousness(session.id, session.projectId, session)
  \/ Tick

SpecExtract == InitExtract /\ [][NextExtract]_vars

\* ------------------------------------------------------------------ claims C11..C20
\* The score the search contract gives an entity for a query: 10 for the name, 5 for
\* the type, 3 for each observation that contains the query, letter case set aside.
ContractScore(e, q) ==
  LET ql == ToLowerCase(q) IN
  (IF Includes(ToLowerCase(e.name), ql) THEN 10 ELSE 0)
  + (IF Includes(ToLowerCase(e.entityType), ql) THEN 5 ELSE 0)
  + 3 * Cardinality({i \in 1..Len(e.observations) :
                      Includes(ToLowerCase(e.observations[i]), ql)})

\* C11: searchBank(bank, q) returns exactly one result for each stored entity with at
\* least one match, scored 10 (name) + 5 (type) + 3 per matching observation; entities
\* without a match are absent; the results are in non-increasing relevanceScore order.
C11_SearchBankScoresAndOrder ==
  [][( last'.op = "searchBank" /\ last'.status = "ok" ) =>
       \A q \in Queries :
         SearchBank(last'.bank, q) =>
           LET es == StoredEntities(files, last'.bank)
               rs == last'.results
               matching == {i \in 1..Len(es) : ContractScore(es[i], q) > 0}
           IN /\ Len(rs) = Cardinality(matching)
              /\ \E f \in [1..Len(rs) -> matching] :
                   /\ \A j, k \in 1..Len(rs) : j # k => f[j] # f[k]
                   /\ \A k \in 1..Len(rs) :
                        /\ rs[k].entityName = es[f[k]].name
                        /\ rs[k].relevanceScore = ContractScore(es[f[k]], q)
              /\ \A k \in 1..Len(rs) - 1 :
                   rs[k].relevanceScore >= rs[k + 1].relevanceScore]_vars

\* C11 witness: a search returned two results, the entity stored second ahead of the
\* entity stored first because it scored higher (name 10 + observation 3 against
\* type 5 + observation 3).
C11_Witness ==
  /\ last.op = "searchBank" /\ last.status = "ok"
  /\ Len(last.results) = 2
  /\ last.results[1].relevanceScore = 13 /\ last.results[2].relevanceScore = 8
  /\ NamesOf(StoredEntities(files, last.bank)) = <<NameA, NameT>>
  /\ last.results[1].entityName = NameT

\* C13: of two results identical in relevanceScore r > 0, timestamp and content, one from
\* a session and one from a memory bank, the ranker puts the memory-bank result first
\* when r > 8 and the session result first when r <= 8, whichever came first in the
\* list.
C13_SourceBoostThreshold ==
  ( /\ last.op = "rankUnifiedResults"
    /\ Len(last.items) = 2
    /\ last.items[1].relevanceScore = last.items[2].relevanceScore
    /\ last.items[1].relevanceScore > 0
    /\ last.items[1].timestamp = last.items[2].timestamp
    /\ last.items[1].content = last.items[2].content
    /\ {last.items[1].source, last.items[2].source} = {"session", "memory_bank"} ) =>
    /\ Len(last.results) = 2
    /\ last.results[1].source =
         IF last.items[1].relevanceScore > 8 THEN "memory_bank" ELSE "session"
    /\ last.results[2].source # last.results[1].source

\* C13 witness: with r = 9 the session result was handed over first and the
\* memory-bank result was returned first.
C13_Witness ==
  /\ last.op = "rankUnifiedResults"
  /\ Len(last.items) = 2
  /\ last.items[1].source = "session" /\ last.items[2].source = "memory_bank"
  /\ last.items[1].relevanceScore = 9 /\ last.items[2].relevanceScore = 9
  /\ last.items[1].timestamp = last.items[2].timestamp
  /\ last.items[1].content = last.items[2].content
  /\ last.results[1].source = "memory_bank"

\* The recency factor the contract gives a context timestamp, in twentieths: 1.2 up to
\* 30 days of age, 1.1 beyond that up to 90 days, 1.0 beyond that or with no timestamp.
ContractRecency(timestamp, now) ==
  IF timestamp = UndefinedTime THEN 20
  ELSE IF now - timestamp <= 30 * TicksPerDay THEN 24
  ELSE IF now - timestamp <= 90 * TicksPerDay THEN 22
  ELSE 20

\* C14: the final score of a result is its score without recency times 1.2 when the
\* context timestamp is at most 30 days old, times 1.1 when it is more than 30 and at
\* most 90 days old, and times 1.0 when it is older or absent.
C14_RecencyFactor ==
  last.op = "rankUnifiedResults" =>
    \A i \in 1..Len(last.items) :
      LET x == last.items[i] IN
      x.timestamp # InvalidTime =>
        x.finalScore * FactorUnit =
          ( x.relevanceScore * SessionFactor(x) * MemoryFactor(x)
              * PhraseFactor(x, last.strings[1]) * FactorUnit )
            * ContractRecency(x.timestamp, clock)

\* C14 witness: a ranking held a result exactly 30 days old scored with 1.2 and a
\* result exactly 90 days old scored with 1.1.
C14_Witness ==
  /\ last.op = "rankUnifiedResults"
  /\ Len(last.items) = 2
  /\ last.items[1].timestamp = clock - 30 * TicksPerDay
  /\ last.items[1].finalScore = last.items[1].relevanceScore * 22 * 20 * 24 * 20
  /\ last.items[2].timestamp = clock - 90 * TicksPerDay
  /\ last.items[2].finalScore = last.items[2].relevanceScore * 22 * 20 * 22 * 20

\* How often a result occurs in a list.
Occurrences(list, x) == Cardinality({k \in 1..Len(list) : list[k] = x})

\* C12: searchAll returns a permutation of the mapped transcript hits together with the
\* searchAllBanks hits, in non-increasing order of the final score; every returned
\* element keeps its relevanceScore and every other field, and carries no finalScore.
C12_SearchAllRanksAndStrips ==
  ( last.op = "searchAll" /\ last.status = "ok" ) =>
    LET query == last.strings[1]
        rs == last.results
    IN /\ Len(rs) = Len(last.items)
       /\ \A k \in 1..Len(rs) : Occurrences(rs, rs[k]) = Occurrences(last.items, rs[k])
       /\ \A k \in 1..Len(rs) : "finalScore" \notin DOMAIN rs[k]
       /\ \A k \in 1..Len(rs) - 1 :
            CalculateFinalScore(rs[k], query, clock)
              >= CalculateFinalScore(rs[k + 1], query, clock)

\* C12 witness: a search returned a memory-bank hit ahead of a transcript hit, the
\* reverse of the order in which the two lists were put together.
C12_Witness ==
  /\ last.op = "searchAll" /\ last.status = "ok"
  /\ Len(last.results) >= 2
  /\ last.items[1].source = "session"
  /\ last.results[1].source = "memory_bank"
  /\ \E k \in 2..Len(last.results) : last.results[k].source = "session"

\* C15: in the result of queryNaturalLanguage no related insight has the content and
\* the session id of a direct match found for the full text.
C15_NoRelatedDuplicate ==
  ( last.op = "queryNaturalLanguage" /\ last.status = "ok" ) =>
    \A i \in 1..Len(last.relatedInsights), k \in 1..Len(last.items) :
      ~ ( /\ last.relatedInsights[i].content = last.items[k].content
          /\ last.relatedInsights[i].sessionId = last.items[k].sessionId )

\* C15 witness: a key term's top hits held a copy of a direct match, and the related
\* insights that were returned are the other top hits.
C15_Witness ==
  /\ last.op = "queryNaturalLanguage" /\ last.status = "ok"
  /\ last.relatedInsights # <<>>
  /\ \E j \in 1..Len(last.top) : \E i \in 1..Len(last.top[j]), k \in 1..Len(last.items) :
       /\ last.top[j][i].content = last.items[k].content
       /\ last.top[j][i].sessionId = last.items[k].sessionId

\* a is b with some elements left out.
RECURSIVE IsSubsequence(_, _)
IsSubsequence(a, b) ==
  IF a = <<>> THEN TRUE
  ELSE IF b = <<>> THEN FALSE
  ELSE IF Head(a) = Head(b) THEN IsSubsequence(Tail(a), Tail(b))
  ELSE IsSubsequence(a, Tail(b))

\* C16: queryNaturalLanguage returns at most 10 direct matches, the first 10 of
\* searchAll(text) as ranked, and at most 5 related insights, taken in order from the
\* 3 top-ranked hits of each key term; the transcript search is invoked once with the
\* full text and then once with each key term, of which there are at most 5.
C16_QueryCaps ==
  ( last.op = "queryNaturalLanguage" /\ last.status = "ok" ) =>
    LET whole == SearchAll(files, clock, last.text, last.search).results
    IN /\ Len(last.results) <= 10
       /\ Len(last.results) = (IF Len(whole) < 10 THEN Len(whole) ELSE 10)
       /\ \A k \in 1..Len(last.results) : last.results[k] = whole[k]
       /\ Len(last.relatedInsights) <= 5
       /\ Len(last.top) = Len(last.keyTerms)
       /\ \A j \in 1..Len(last.keyTerms) :
            /\ Len(last.top[j]) <= 3
            /\ \A i \in 1..Len(last.top[j]) :
                 last.top[j][i] =
                   SearchAll(files, clock, last.keyTerms[j], last.search).results[i]
       /\ IsSubsequence(last.relatedInsights, Flatten(last.top))
       /\ Len(last.keyTerms) <= 5
       /\ last.strings = <<last.text>> \o last.keyTerms

\* C16 witness: a query of more than five candidate terms whose searches each found
\* more than ten hits returned 10 direct matches and 5 related insights after six
\* invocations of the transcript search.
C16_Witness ==
  /\ last.op = "queryNaturalLanguage" /\ last.status = "ok"
  /\ Len(last.items) > 10 /\ Len(last.results) = 10
  /\ Len(Flatten(last.top)) = 15 /\ Len(last.relatedInsights) = 5
  /\ Len(last.keyTerms) = 5 /\ Len(last.strings) = 6

\* C17: every pattern the extraction pipeline returns has confidence strictly above
\* 0.5; a candidate of confidence 0.5 or lower is not among the returned patterns, and
\* no entity processTranscript stored comes from one.
C17_QualityGate ==
  /\ ( last.op \in {"extractPatterns", "processTranscript"} /\ last.status = "ok" ) =>
       /\ \A k \in 1..Len(last.results) : 2 * last.results[k].confidence > ConfidenceUnit
       /\ \A i \in 1..Len(last.items) :
            2 * last.items[i].confidence <= ConfidenceUnit =>
              \A k \in 1..Len(last.results) : last.results[k] # last.items[i]
       /\ \A j \in 1..Len(last.stored) : \A k \in 1..Len(last.stored[j].entities) :
            2 * last.stored[j].entities[k].confidenceScore > ConfidenceUnit
  /\ \A b \in BankNames :
       \A k \in 1..Len(StoredEntities(files, b)) :
         2 * StoredEntities(files, b)[k].confidenceScore > ConfidenceUnit

\* C17 witness: processTranscript met a candidate of confidence exactly 0.5, returned
\* another pattern of the same sentence, and stored the entity of that one alone.
C17_Witness ==
  /\ last.op = "processTranscript" /\ last.status = "ok"
  /\ \E i \in 1..Len(last.items) : 2 * last.items[i].confidence = ConfidenceUnit
  /\ Len(last.results) = 1
  /\ Len(last.stored) = 1 /\ Len(last.stored[1].entities) = 1
  /\ Len(StoredEntities(files, "collaboration_insights")) = 1
  /\ StoredEntities(files, "development_patterns") = <<>>

\* C18: of the sentences the technical rule runs over, one that matches exactly 1
\* technical keyword gives no technical_insight pattern, and one that matches exactly 2
\* gives a technical_insight pattern of confidence min(2/14 * 2, 0.9), that is 2/7.
C18_TechnicalThreshold ==
  ( last.op = "extractPatterns" /\ last.status = "ok" ) =>
    LET sentences == Sentences(GetSessionContent(last.session), 20) IN
    \A n \in 1..Len(sentences) :
      LET matched == CountMatches(TechnicalKeywords, ToLowerCase(sentences[n]))
          emitted == {i \in 1..Len(last.items) :
                        /\ last.items[i].type = "technical_insight"
                        /\ last.items[i].content = Trim(sentences[n])}
      IN /\ matched = 1 =>
              /\ emitted = {}
              /\ \A k \in 1..Len(last.results) :
                   ~ ( /\ last.results[k].type = "technical_insight"
                       /\ last.results[k].content = Trim(sentences[n]) )
         /\ matched = 2 =>
              /\ emitted # {}
              /\ \A i \in emitted : 7 * last.items[i].confidence = 2 * ConfidenceUnit

\* C18 witness: an extraction over a sentence with two technical keywords and a
\* sentence with four gave the first the confidence 2/7 and the second 4/7.
C18_Witness ==
  /\ last.op = "extractPatterns" /\ last.status = "ok"
  /\ Len(last.items) = 2
  /\ last.items[1].type = "technical_insight"
  /\ 7 * last.items[1].confidence = 2 * ConfidenceUnit
  /\ last.items[2].type = "technical_insight"
  /\ 7 * last.items[2].confidence = 4 * ConfidenceUnit

\* C19: every sentence that contains "exactly :p" in any letter case, also one that is
\* that phrase alone and one that holds other indicators too, yields a
\* breakthrough_moment pattern of confidence 0.95.
C19_MarkerAlwaysDetected ==
  ( last.op = "extractPatterns" /\ last.status = "ok" ) =>
    LET sentences == SplitSentences(GetSessionContent(last.session)) IN
    \A n \in 1..Len(sentences) :
      Includes(ToLowerCase(sentences[n]), Marker) =>
        /\ \E k \in 1..Len(last.results) :
             /\ last.results[k].type = "breakthrough_moment"
             /\ last.results[k].content = Trim(sentences[n])
             /\ 20 * last.results[k].confidence = 19 * ConfidenceUnit
        /\ \A k \in 1..Len(last.results) :
             ( /\ last.results[k].type = "breakthrough_moment"
               /\ last.results[k].content = Trim(sentences[n]) ) =>
               20 * last.results[k].confidence = 19 * ConfidenceUnit

\* C20: extraction never raises on a transcript with absent fields; without message
\* list the result is zero patterns.
C20_ExtractionNeverRaises ==
  last.op = "extractPatterns" =>
    /\ last.status = "ok"
    /\ "messages" \in last.session.lacks => last.results = <<>>

\* ------------------------------------------------------------------ files not written by the store
\* Bank files as loadBankGraph can find them: lines that do not parse, a line whose
\* type is neither entity nor relation, an entity line without memoryBank, a relation
\* line ahead of an entity line.
LoadFiles ==
  LET Line(e, type, bankName) ==
        [json |-> TRUE,
         obj |-> [e EXCEPT !.type = type, !.memoryBank = bankName, !.createdAt = 1]]
      stored == Line(EntityObj(NameT, TypeJ, <<ObsJw>>), "entity", "development_patterns")
      untagged == Line(EntityObj(NameA, TypeT, <<>>), "entity", Undefined)
      relation == Line(RelationObj(NameA, NameT, <<"u">>, 1), "relation",
                       "development_patterns")
      note == Line(EntityObj(NameA, TypeT, <<ObsJWT>>), "note", "development_patterns")
  IN { PresentFile(<<MalformedLine, stored>>),
       PresentFile(<<untagged, MalformedLine, stored>>),
       PresentFile(<<relation, MalformedLine, stored>>),
       PresentFile(<<note, stored>>),
       PresentFile(<<MalformedLine, note>>),
       PresentFile(<<MalformedLine, relation, MalformedLine>>) }

InitLoad ==
  /\ files \in [BankNames -> LoadFiles \cup {MissingFile}]
  /\ files["development_patterns"] \in LoadFiles
  /\ \A b \in BankNames \ CallBanks : files[b] = MissingFile
  /\ clock = 1
  /\ procs = [p \in Procs |-> IdleProc]
  /\ last = Returned("none", Undefined, <<>>, <<>>, <<>>, <<>>)

SpecLoad == InitLoad /\ [][Next]_vars

\* ------------------------------------------------------------------ initializeAllBanks
\* initializeAllBanks as the event loop runs it, bank by bank in the order of the
\* configuration: the call up to the first fs.access (mkdir changes no file), the
\* continuation when fs.access settles (it resolves for every path that exists, readable
\* or not, and rejects for a missing one, on which fs.writeFile(path, '') is issued),
\* and the write of the empty file. The server calls it from every handler until one
\* run has completed, so it can be called again.
InitializeAllBanksCalled(p) ==
  /\ procs[p].pc \in {"idle", "done"}
  /\ procs' = [procs EXCEPT ![p] = [IdleProc EXCEPT !.pc = "checking",
                                                     !.bank = BankOrder[1]]]
  /\ UNCHANGED <<files, clock, last>>

\* Mutant: fs.access is taken to reject for every path.
InitializeCheckedAlwaysCreates(p) ==
  /\ procs[p].pc = "checking"
  /\ procs' = [procs EXCEPT ![p].pc = "creating"]
  /\ UNCHANGED <<files, clock, last>>

InitializeChecked(p) ==
  /\ procs[p].pc = "checking"
  /\ LET k == CHOOSE i \in 1..Len(BankOrder) : BankOrder[i] = procs[p].bank
     IN procs' = [procs EXCEPT ![p] =
          IF files[procs[p].bank].status = "missing" THEN [@ EXCEPT !.pc = "creating"]
          ELSE IF k = Len(BankOrder) THEN [@ EXCEPT !.pc = "done"]
          ELSE [@ EXCEPT !.bank = BankOrder[k + 1]]]
  /\ UNCHANGED <<files, clock, last>>

InitializeCreated(p) ==
  /\ procs[p].pc = "creating"
  /\ files' = [files EXCEPT ![procs[p].bank] = WriteFile(@, <<>>)]
  /\ LET k == CHOOSE i \in 1..Len(BankOrder) : BankOrder[i] = procs[p].bank
     IN procs' = [procs EXCEPT ![p] =
          IF k = Len(BankOrder) THEN [@ EXCEPT !.pc = "done"]
          ELSE [@ EXCEPT !.pc = "checking", !.bank = BankOrder[k + 1]]]
  /\ UNCHANGED <<clock, last>>

\* One caller initializes, again and again; another calls createEntitiesInBank once.
NextInitialize ==
  \/ InitializeAllBanksCalled("p1")
  \/ InitializeChecked("p1")
  \/ InitializeCreated("p1")
  \/ \E b \in CallBanks, es \in Batches(EntityInputs) : CreateEntitiesCalled("p2", b, es)
  \/ CreateEntitiesLoaded("p2")
  \/ CreateEntitiesSaved("p2")

SpecInitialize == Init /\ [][NextInitialize]_vars

\* ------------------------------------------------------------------ claims C21..C30
\* The bank the fixed mapping gives each pattern type.
ContractBank ==
  [technical_insight |-> "development_patterns",
   solution_approach |-> "development_patterns",
   breakthrough_moment |-> "breakthrough_moments",
   collaboration_pattern |-> "collaboration_insights"]

\* C21: after any sequence of processTranscript calls every stored entity lies in the
\* bank the fixed mapping gives its type, and the files of project_evolution and
\* community_wisdom were never written.
C21_FixedMapping ==
  /\ \A b \in BankNames :
       \A k \in 1..Len(StoredEntities(files, b)) :
         \E t \in DOMAIN ContractBank :
           /\ StoredEntities(files, b)[k].entityType = TypeChars[t]
           /\ ContractBank[t] = b
  /\ files["project_evolution"] = MissingFile
  /\ files["community_wisdom"] = MissingFile
  /\ last.op = "processTranscript" =>
       \A j \in 1..Len(last.stored) :
         \A k \in 1..Len(last.stored[j].entities) :
           \E t \in DOMAIN ContractBank :
             /\ last.stored[j].entities[k].entityType = TypeChars[t]
             /\ ContractBank[t] = last.stored[j].bank

\* C21 witness: processTranscript calls left a solution approach in development_patterns
\* and a collaboration pattern in collaboration_insights.
C21_Witness ==
  /\ last.op = "processTranscript" /\ last.status = "ok"
  /\ \E k \in 1..Len(StoredEntities(files, "development_patterns")) :
       StoredEntities(files, "development_patterns")[k].entityType
         = TypeChars.solution_approach
  /\ \E k \in 1..Len(StoredEntities(files, "collaboration_insights")) :
       StoredEntities(files, "collaboration_insights")[k].entityType
         = TypeChars.collaboration_pattern

\* C22: the names synthesized for the patterns one extraction run returns are pairwise
\* distinct, and no two entities one processTranscript call hands to a bank share a name.
C22_DistinctNames ==
  ( last.op \in {"extractPatterns", "processTranscript"} /\ last.status = "ok" ) =>
    /\ \A i, k \in 1..Len(last.results) :
         i # k => GenerateEntityName(last.results[i]) # GenerateEntityName(last.results[k])
    /\ \A j \in 1..Len(last.stored) :
         \A i, k \in 1..Len(last.stored[j].entities) :
           i # k => last.stored[j].entities[i].name # last.stored[j].entities[k].name

\* The sentence unit that holds position i of the content: the characters around it
\* up to the nearest terminators.
UnitAt(content, i) ==
  LET IsEnd(j) == content[j] \in {".", "!", "?"}
      from == CHOOSE a \in 1..i :
                (\A j \in a..i : ~ IsEnd(j)) /\ (a = 1 \/ IsEnd(a - 1))
      to == CHOOSE b \in i..Len(content) :
              (\A j \in i..b : ~ IsEnd(j)) /\ (b = Len(content) \/ IsEnd(b + 1))
  IN SubSeq(content, from, to)

\* C25: wherever one of the ten indicator phrases occurs in the transcript text, in a
\* sentence unit longer than the minimum, a breakthrough_moment pattern is emitted for
\* that unit; no unit gives more than one, and the first indicator in list order decides
\* the confidence (0.95 with the marker, else 0.7).
C25_EveryIndicatorDetected ==
  ( last.op = "extractPatterns" /\ last.status = "ok" ) =>
    LET content == GetSessionContent(last.session)
        lower == ToLowerCase(content)
        units == SplitSentences(content)
        found == SelectSeq(last.items, LAMBDA p : p.type = "breakthrough_moment")
    IN /\ \A n \in 1..Len(BreakthroughIndicators) :
            \A i \in 1..(Len(lower) - Len(BreakthroughIndicators[n]) + 1) :
              ( /\ SubSeq(lower, i, i + Len(BreakthroughIndicators[n]) - 1)
                     = BreakthroughIndicators[n]
                /\ Len(Trim(UnitAt(content, i))) > 10 ) =>
                \E k \in 1..Len(found) : found[k].content = Trim(UnitAt(content, i))
       /\ Len(found) <= Cardinality({u \in 1..Len(units) :
                           \E n \in 1..Len(BreakthroughIndicators) :
                             Includes(ToLowerCase(units[u]), BreakthroughIndicators[n])})
       /\ \A k \in 1..Len(found) :
            20 * found[k].confidence =
              IF Includes(ToLowerCase(found[k].content), Marker)
              THEN 19 * ConfidenceUnit ELSE 14 * ConfidenceUnit

\* The three sentence rules as the contract of the returned patterns has them: the
\* keyword list, the length a sentence must exceed, the matches a returned pattern
\* needs, and the matches from which the rule pass emits a candidate.
ContractRules ==
  { [type |-> "technical_insight", keywords |-> TechnicalKeywords, longer |-> 20,
     needed |-> 4, emitted |-> 2, cued |-> FALSE],
    [type |-> "collaboration_pattern", keywords |-> CollaborationIndicators,
     longer |-> 15, needed |-> 2, emitted |-> 1, cued |-> FALSE],
    [type |-> "solution_approach", keywords |-> SolutionKeywords, longer |-> 20,
     needed |-> 2, emitted |-> 1, cued |-> TRUE] }

\* C26: every returned technical_insight comes from a sentence with at least 4 matched
\* technical keywords, every returned collaboration_pattern from one with at least 2
\* matched indicators, every returned sentence-derived solution_approach from one with
\* at least 2 matched solution keywords; a sentence with fewer matches gives no returned
\* pattern of that type, though the rule pass emitted a candidate for it.
C26_ReturnedNeedMatches ==
  ( last.op = "extractPatterns" /\ last.status = "ok" ) =>
    LET content == GetSessionContent(last.session)
        IsOf(p, rule, sentence) ==
          /\ p.type = rule.type
          /\ p.extractedFrom.sessionId = last.session.id
          /\ p.content = Trim(sentence)
    IN \A rule \in ContractRules :
         LET sentences == Sentences(content, rule.longer)
             matched(n) == CountMatches(rule.keywords, ToLowerCase(sentences[n]))
             cue(n) == \/ ~ rule.cued
                       \/ Includes(ToLowerCase(sentences[n]), <<"h", "o", "w">>)
                       \/ Includes(ToLowerCase(sentences[n]),
                                   <<"s", "h", "o", "u", "l", "d">>)
         IN /\ \A k \in 1..Len(last.results) :
                 ( /\ last.results[k].type = rule.type
                   /\ last.results[k].extractedFrom.sessionId = last.session.id ) =>
                   \E n \in 1..Len(sentences) :
                     IsOf(last.results[k], rule, sentences[n]) /\ matched(n) >= rule.needed
            /\ \A n \in 1..Len(sentences) :
                 matched(n) < rule.needed =>
                   /\ \A k \in 1..Len(last.results) :
                        ~ IsOf(last.results[k], rule, sentences[n])
                   /\ ( matched(n) >= rule.emitted /\ cue(n) ) =>
                        \E i \in 1..Len(last.items) :
                          IsOf(last.items[i], rule, sentences[n])

\* C26 witness: an extraction returned the collaboration pattern of a sentence with two
\* indicators and dropped the solution candidate of a sentence with one keyword.
C26_Witness ==
  /\ last.op = "extractPatterns" /\ last.status = "ok"
  /\ Len(last.items) = 2 /\ Len(last.results) = 1
  /\ last.results[1].type = "collaboration_pattern"
  /\ CountMatches(CollaborationIndicators, ToLowerCase(last.results[1].content)) = 2
  /\ \E i \in 1..Len(last.items) :
       /\ last.items[i].type = "solution_approach"
       /\ CountMatches(SolutionKeywords, ToLowerCase(last.items[i].content)) = 1

\* C29: processSessionForConsciousness called again with the transcript, session id and
\* project id of the call before it (fewer than 3 tool invocations) stores nothing: the
\* stored lists it reports are empty and every bank holds the entities it held.
C29_SecondCallStoresNothing ==
  [][ \A session \in Sessions :
        ( /\ last.op = "processTranscript"
          /\ last.session = session
          /\ Len(session.toolCalls) < 3
          /\ ProcessSessionForConsciousness(session.id, session.projectId, session) ) =>
          /\ \A j \in 1..Len(last'.stored) : last'.stored[j].entities = <<>>
          /\ \A b \in BankNames : StoredEntities(files', b) = StoredEntities(files, b)
    ]_vars

\* C29 witness: a call reported the bank it was assigned entities for with nothing
\* stored, the entities of the transcript being in the bank already.
C29_Witness ==
  /\ last.op = "processTranscript" /\ last.status = "ok"
  /\ Len(last.results) >= 1
  /\ Len(last.stored) >= 1
  /\ \A j \in 1..Len(last.stored) :
       /\ last.stored[j].entities = <<>>
       /\ \E k \in 1..Len(StoredEntities(files, last.stored[j].bank)) :
            StoredEntities(files, last.stored[j].bank)[k].name
              = GenerateEntityName(last.results[1])

\* The items of the lines that parse and carry the type tag, in the order of the lines.
WellFormed(lines, tag) ==
  LET at == { i \in 1..Len(lines) : lines[i].json /\ lines[i].obj.type = tag }
      Nth(k) == CHOOSE i \in at : Cardinality({ j \in at : j < i }) = k - 1
  IN [k \in 1..Cardinality(at) |-> lines[Nth(k)].obj]

\* C24: a bank file with malformed lines loads without an error, as the entities and
\* the relations of its well-formed lines in file order; no operation on the bank fails
\* for the malformed lines, and a search of the bank returns well-formed entities only,
\* every one whose name holds the query among them.
C24_MalformedLinesSkipped ==
  [][ \A b \in BankNames :
        files[b].status = "present" =>
          LET lines == files[b].lines
              loaded == LoadBankGraph(files[b])
              entities == WellFormed(lines, "entity")
          IN /\ ~ loaded.threw
             /\ loaded.graph.entities = entities
             /\ loaded.graph.relations = WellFormed(lines, "relation")
             /\ ( last' # last /\ last'.bank = b ) =>
                  /\ last'.error.kind \in {"none", "EntityNotFound"}
                  /\ last'.error.kind = "EntityNotFound" =>
                       \A k \in 1..Len(entities) : entities[k].name # last'.error.entity
                  /\ \A q \in Queries :
                       ( last'.op = "searchBank" /\ SearchBank(b, q) ) =>
                         /\ last'.status = "ok"
                         /\ \A k \in 1..Len(last'.results) :
                              \E i \in 1..Len(entities) :
                                last'.results[k].entityName = entities[i].name
                         /\ \A i \in 1..Len(entities) :
                              Includes(ToLowerCase(entities[i].name), ToLowerCase(q)) =>
                                \E k \in 1..Len(last'.results) :
                                  last'.results[k].entityName = entities[i].name
    ]_vars

\* C24 witness: a search returned two entities of a file that holds a malformed line
\* between their lines.
C24_Witness ==
  /\ last.op = "searchBank" /\ last.status = "ok" /\ Len(last.results) = 2
  /\ files[last.bank].status = "present"
  /\ LET lines == files[last.bank].lines
     IN \E h, i, j \in 1..Len(lines) :
          /\ h < i /\ i < j
          /\ ~ lines[i].json
          /\ lines[h].json /\ lines[h].obj.name = last.results[2].entityName
          /\ lines[j].json /\ lines[j].obj.name = last.results[1].entityName

\* C30: a createEntities, createRelations or addObservations call that succeeds leaves
\* the bank file as the entities its well-formed lines held, in their order, then the
\* new entities, then the relations its well-formed lines held, in their order, then
\* the new relations; no line that did not parse or carried another type is left.
C30_WholeFileRewritten ==
  [][ ( /\ clock' = clock
        /\ last'.status = "ok"
        /\ last'.op \in {"createEntities", "createRelations", "addObservations"} ) =>
        LET b == last'.bank
            op == last'.op
            Tagged(e, tag) == [e EXCEPT !.type = tag,
                                        !.memoryBank = IF @ = Undefined THEN b ELSE @]
            oldEntities == WellFormed(files[b].lines, "entity")
            oldRelations == WellFormed(files[b].lines, "relation")
            target == IF op = "addObservations"
                      THEN CHOOSE i \in 1..Len(oldEntities) :
                             /\ oldEntities[i].name = last'.offered[1]
                             /\ \A j \in 1..(i - 1) : oldEntities[j].name # last'.offered[1]
                      ELSE 0
            keptEntities ==
              [i \in 1..Len(oldEntities) |->
                 IF i = target
                 THEN [oldEntities[i] EXCEPT !.observations = @ \o last'.strings]
                 ELSE oldEntities[i]]
            entities == keptEntities
                          \o (IF op = "createEntities" THEN last'.items ELSE <<>>)
            relations == oldRelations
                           \o (IF op = "createRelations" THEN last'.items ELSE <<>>)
            expected == [i \in 1..Len(entities) |-> Tagged(entities[i], "entity")]
                          \o [i \in 1..Len(relations) |-> Tagged(relations[i], "relation")]
        IN /\ files'[b].status = "present"
           /\ Len(files'[b].lines) = Len(expected)
           /\ \A i \in 1..Len(expected) :
                files'[b].lines[i] = [json |-> TRUE, obj |-> expected[i]]
           /\ \A i \in 1..Len(files'[b].lines) :
                /\ files'[b].lines[i].json
                /\ files'[b].lines[i].obj.type \in {"entity", "relation"}
           /\ \A other \in BankNames \ {b} : files'[other] = files[other]
    ]_vars

\* C30 witness: createEntities stored one entity behind the entity the file held, the
\* file having held a malformed line or a line of another type as well.
C30_Witness ==
  /\ last.op = "createEntities" /\ last.status = "ok" /\ Len(last.items) = 1
  /\ files[last.bank].status = "present"
  /\ Len(files[last.bank].lines) = 2
  /\ files[last.bank].lines[1].obj.name = NameT
  /\ files[last.bank].lines[1].obj.observations = <<ObsJw>>
  /\ files[last.bank].lines[2].obj.name = last.items[1].name
  /\ last.items[1].name = NameA

\* C27: when every overlapping createEntities call was handed a list of pairwise
\* distinct names, every bank file holds each entity name once at most, whatever the
\* order of the reads and the writes.
C27_RaceKeepsNamesUnique ==
  ( \A p \in Procs : NoRepeat(NamesOf(procs[p].input)) ) =>
    \A b \in BankNames :
      /\ NoRepeat(NamesOf(StoredEntities(files, b)))
      /\ \A p \in Procs :
           procs[p].bank = b => NoRepeat(NamesOf(procs[p].graph.entities))

\* C27 witness: two calls offered the same name, both read the file before either
\* wrote it, both returned their entity as stored, and the file holds the name once.
C27_Witness ==
  /\ procs["p1"].pc = "done" /\ procs["p2"].pc = "done"
  /\ procs["p1"].bank = "development_patterns" /\ procs["p2"].bank = "development_patterns"
  /\ procs["p1"].loaded = procs["p2"].loaded
  /\ NamesOf(procs["p1"].result) = <<NameA>>
  /\ NamesOf(procs["p2"].result) = <<NameA>>
  /\ CountName(files, "development_patterns", NameA) = 1

\* C23: initializeAllBanks run alone leaves a bank file that exists as it is and
\* creates empty files only; when it completes every bank file exists; once every bank
\* file exists, a run changes nothing.
C23_InitializeIdempotent ==
  [][ ( procs["p2"].pc = "idle" /\ procs'["p2"].pc = "idle" ) =>
        /\ \A b \in BankNames :
             IF files[b].status = "missing"
             THEN files'[b] \in {MissingFile, PresentFile(<<>>)}
             ELSE files'[b] = files[b]
        /\ procs'["p1"].pc = "done" =>
             \A b \in BankNames : files'[b].status # "missing"
        /\ ( \A b \in BankNames : files[b].status # "missing" ) => files' = files
    ]_vars

\* C23 witness: a second run has reached the last bank with every bank file there, and
\* the file that held a line before the first run holds it still.
C23_Witness ==
  /\ procs["p2"].pc = "idle"
  /\ procs["p1"].pc = "checking" /\ procs["p1"].bank = BankOrder[Len(BankOrder)]
  /\ \A b \in BankNames : files[b].status # "missing"
  /\ files["development_patterns"] = PresentFile(<<MalformedLine>>)

\* C28: no step of initializeAllBanks takes an entity out of a bank file, a
\* createEntities call on a bank without file running between its steps included.
C28_InitializeKeepsEntities ==
  [][ procs'["p1"] # procs["p1"] =>
        \A b \in BankNames : StoredEntities(files', b) = StoredEntities(files, b)
    ]_vars

====
